---- MODULE Spec2Model ----
(***************************************************************************)
(* Synchronization and scheduling engine of roccobots.                     *)
(*                                                                         *)
(*   SpecMgr     BotManager: start / stop / executor.restart /             *)
(*               ensureXClient, with the instances it builds.              *)
(*   SpecSeq     the same with start / restart requests served one after   *)
(*               another.                                                  *)
(*   SpecInst    one BotInstance: start, performSync, the interval, stop.  *)
(*   SpecPosts   syncPosts: post-sync passes over a newest-first feed.     *)
(*   SpecCmd     the command channel of one bot: CommandPoller (poll /     *)
(*               processMention) and the manager's start / stop /          *)
(*               startCommandPoller around it, process crashes included.   *)
(*   SpecChannel the same with one poller object at a time.                *)
(*   SpecProfile syncProfile / upsertProfileCache: profile passes over one *)
(*               of the two cached images.                                 *)
(*   SpecParse   parseCommand and the dispatch of processMention for one   *)
(*               mention of a trusted author.                              *)
(*   SpecJobs    syncProfile from the building of its jobs on: the calls   *)
(*               of the destinations and Promise.all.                      *)
(*   SpecRetry   withRetry: one call with its options and an fn that       *)
(*               fails or succeeds.                                        *)
(*   SpecTrust   the trust check of the CommandPoller: the allow-list it   *)
(*               re-reads at each poll and edits of the stored list.       *)
(*   SpecSettings the setting commands of processMention (frequency and    *)
(*               the toggles), executor.setSetting and the stored          *)
(*               configuration, beside a BotInstance built from it.        *)
(*   SpecStopAll BotManager.stopAll beside start and stop: the two maps    *)
(*               and the timers of the instances and pollers in them.      *)
(*                                                                         *)
(* Every await of the source is a suspension point: the code between two   *)
(* awaits is one action, and other tasks may run at each await.            *)
(***************************************************************************)
EXTENDS Integers, Sequences, FiniteSets, TLC

\* ------------------------------------------------------------------------
\* Bounds of the model
\* ------------------------------------------------------------------------
NumBots == 2     \* bot ids
MaxCalls == 3    \* start() / executor.restart() activations in one run
MaxPasses == 2   \* performSync() activations of one instance in flight at once
MaxFeed == 2     \* posts the upstream feed can hold
NumPlatforms == 2 \* synchronizers of the bot
MaxCutoff == 2   \* largest MAX_CONSECUTIVE_CACHED
MaxExhausted == 1 \* deliveries in one run that fail on every retry
MaxPollers == 2  \* CommandPoller objects of the bot that exist at once
MaxMentions == 2 \* mentions the bot's account receives
MaxUrls == 2     \* image URLs the upstream profile can name
MaxContents == 2 \* image contents the upstream can serve
MaxTokens == 2   \* whitespace-separated tokens of a mention's text
MaxRetriesOpt == 2 \* largest options.maxRetries
MaxBaseDelay == 2 \* largest options.baseDelayMs
MaxMultiplier == 2 \* largest options.backoffMultiplier
MaxDelayCap == 3 \* largest options.maxDelayMs
MaxTrusted == 1  \* handles of a stored allow-list
MaxSettingCmds == 2 \* setting commands in one run
MaxErrors == 2   \* distinct errors fn can throw

BotIds == 1..NumBots
CallIds == 1..MaxCalls
PassIds == 1..MaxPasses
TweetIds == 1..MaxFeed
Platforms == 1..NumPlatforms
PollerIds == 1..MaxPollers
Mentions == 1..MaxMentions
Urls == 0..MaxUrls          \* 0 = "" (no image)
Contents == 1..MaxContents

\* BotInstance.MAX_SYNC_RETRIES
MAX_SYNC_RETRIES == 3

\* withRetry(() => s.syncPost(...), { maxRetries: 3, ... }) in syncPosts
SyncPostMaxRetries == 3

VARIABLES
  \* BotManager
  bots,            \* Map<number, BotInstance>: bot id -> instance (0 = absent)
  commandPollers,  \* Map<number, CommandPoller>: bot ids that have an entry
  xClient,         \* shared upstream session: 0 = null, k = client made by call k
  xClientPromise,  \* in-flight creation: 0 = null, k = promise made by call k
  resolved,        \* createTwitterClient promises that have resolved
  authConfigured,  \* whether getTwitterAuthDecrypted() finds credentials
  calls,           \* activations of start() / executor.restart()
  insts,           \* BotInstance objects; activation c constructs instance c
  authAttempts,    \* number of createTwitterClient() calls made so far
  ret,             \* the start() / stop() call that has just returned at
                   \* once: which, for which bot, and the error it threw
  \* one BotInstance
  isRunning,       \* private isRunning
  syncInterval,    \* whether the setInterval timer is armed
  status,          \* status.status
  nextSyncAt,      \* whether status.nextSyncAt is defined
  errorMessage,    \* whether status.errorMessage is defined
  startPc,         \* where the instance's start() stands
  passes,          \* performSync() activations: attempt number, 0 = none
  synchronizers,   \* this.synchronizers.length
  method,          \* the method whose code the step just taken ran
  events,          \* events other than 'log' which that step emitted
  registered,      \* the caller that awaited start() has stored the instance
  lastFailure,     \* what the attempt that failed in the last step threw:
                   \* "transient", "other", or "none"
  \* syncPosts
  feed,            \* x.getTweets(): post ids, newest first
  validPosts,      \* post ids for which isValidPost() holds
  TweetSynced,     \* table TweetSynced: post ids with synced = 1
  TweetMap,        \* table TweetMap: rows <<post id, platform, platformStore>>
  forceSyncPosts,  \* env FORCE_SYNC_POSTS
  maxCached,       \* env MAX_CONSECUTIVE_CACHED
  hasSyncPost,     \* synchronizers that implement syncPost
  postPc,          \* where the pass stands
  counter,         \* let counter
  cachedCounter,   \* let cachedCounter
  metaTweet,       \* post the synchronizer loop is (or was last) run for
  cur,             \* synchronizer the inner loop is at
  attempt,         \* withRetry's attempt
  \* what the running (or last) pass did
  called,          \* <<post, platform>> for which syncPost was called
  inserts,         \* the rows handed to the TweetMap insert in this pass
  lookups,         \* number of TweetSynced lookups
  syncedAtStart,   \* TweetSynced when the pass began
  result,          \* per platform, how syncPost ended for the post at hand
  errorLogged,     \* platforms with an 'error' log entry for the post at hand
  scraperError,    \* the feed iterator threw
  repeat,          \* the pass follows a complete pass over the same feed
  exhausted,       \* number of deliveries that failed on every retry so far
  \* the command channel of one bot
  botLive,         \* bots.has(botId)
  cmdEntry,        \* commandPollers.get(botId): a poller, 0 = no entry
  pollers,         \* the CommandPoller objects and the calls that build them
  cursor,          \* stored CommandConfigs.lastSeenAt, 0 = null
  arrived,         \* mentions received so far; mention m has indexedAt m
  kindOf,          \* what each mention is: author and command text
  execCount,       \* executor invocations per mention (2 = two or more)
  cmdEnabled,      \* stored CommandConfigs.enabled (no row = false)
  \* syncProfile, followed for one of the two images
  image,           \* the image followed: "pfp" or "banner"
  cache,           \* its fields of the TwitterProfileCache row: url, hash
  profPc,          \* where the profile pass stands
  fetchedUrl,      \* pfpUrl / bannerUrl of the fetched profile
  row,             \* cPfpUrl, cPfpHash / cBannerUrl, cBannerHash
  blob,            \* pfpBlob / bannerBlob: downloaded content, 0 = undefined
  imgHash,         \* let pfpHash / bannerHash, 0 = ""
  changed,         \* let pfpChanged / bannerChanged
  destCalls,       \* synchronizers whose syncProfilePic / syncBanner was called
  lastDownloaded,  \* fingerprint downloaded by the last finished pass that
                   \* downloaded the image, 0 = none
  \* parseCommand and the dispatch of processMention for one mention of a
  \* trusted author
  text,            \* the mention's text, as its tokens
  parsePc,         \* "new", "parsed" or "done"
  command,         \* what parseCommand returned
  outcome,         \* the replies and executor calls of the dispatch, in order
  \* one call of withRetry(fn, options)
  maxRetries,      \* options.maxRetries
  baseDelayMs,     \* options.baseDelayMs
  maxDelayMs,      \* options.maxDelayMs
  backoffMultiplier, \* options.backoffMultiplier
  retryAttempt,    \* the loop variable attempt
  retryPc,         \* "call" (fn awaited), "wait" (timer awaited), "returned",
                   \* "thrown"
  fnCalls,         \* calls of fn so far
  fnErrors,        \* the errors fn threw, in order
  delays,          \* the setTimeout delays, in order
  onRetryArgs,     \* the attempt numbers handed to onRetry, in order
  thrownError,     \* what withRetry threw, 0 = nothing
  \* the destination calls of one syncProfile
  jobs,            \* per <<dimension, platform>>: "none", "running", "ok", "failed"
  jobsPc,          \* "media", "replacer" (shortenedUrlsReplacer awaited), "text",
                   \* "all" (Promise.all awaited), "returned", "threw"
  firstRejected,   \* the job that rejected first, <<>> = none
  errorLog,        \* the jobs whose error an onLog("error", ...) call reported
  \* the trust check of one CommandPoller
  trustedHandles,  \* CommandConfigs.trustedHandles: the stored allow-list
  pollerConfig,    \* this.config.trustedHandles of the poller
  reread,          \* the stored list as the last onConfigRefresh returned it
  trustPc,         \* "idle", "refresh" (onConfigRefresh awaited), "list"
                   \* (listNotifications awaited), "persist"
                   \* (onLastSeenAtUpdate awaited), "acted" (executor awaited)
  author,          \* notification.author.handle of the mention in work, <<>> = none
  mentionsLeft,    \* mentions of the batch still to process
  executed,        \* the last step called the executor
  \* the setting commands and the configuration
  botConfig,       \* the BotConfigs row of the bot, per column
  liveBot,         \* the BotInstance of the bot: pc "none", "load"
                   \* (loadBotConfig awaited), "starting" (bot.start() awaited),
                   \* "running"; config = <<this.config>>; intervalMs of its
                   \* setInterval, 0 = no timer
  startedWith,     \* <<the row as loadBotConfig read it for liveBot>>
  lastPass,        \* what the last performSync took from this.config, <<>> = the
                   \* last step was no pass
  setCmd,          \* <<the ParsedCommand the last step handled>>
  setOutcome,      \* the executor calls and replies of the last step
  setCmds,         \* setting commands handled so far
  \* stopAll, and the maps and timers it works on
  liveSet,         \* the keys of this.bots
  pollerSet,       \* the keys of this.commandPollers
  syncTimers,      \* the bots whose BotInstance has its interval armed
  pollTimers,      \* the bots whose CommandPoller has its interval armed
  saPc,            \* per bot, its start() call: "none", "starting" (bot.start()
                   \* awaited), "poller" (startCommandPoller awaited)
  stopAllDone      \* <<[bots, pollers]>>: stopAll() has just returned, with the
                   \* keys the two maps had when it was called; <<>> otherwise

mgrVars == <<bots, commandPollers, xClient, xClientPromise, resolved,
             authConfigured, calls, insts, authAttempts, ret>>

instVars == <<isRunning, syncInterval, status, nextSyncAt, errorMessage, startPc,
             passes, synchronizers, method, events, registered,
              lastFailure>>

postVars == <<feed, validPosts, TweetSynced, TweetMap, forceSyncPosts, maxCached,
              hasSyncPost, postPc, counter, cachedCounter, metaTweet, cur,
                 attempt, called,
              inserts, lookups, syncedAtStart, result, errorLogged, scraperError,
              repeat, exhausted>>

cmdVars == <<botLive, cmdEntry, pollers, cursor, arrived, kindOf, execCount,
             cmdEnabled>>

profVars == <<image, cache, profPc, fetchedUrl, row, blob, imgHash, changed,
              destCalls, lastDownloaded>>

parseVars == <<text, parsePc, command, outcome>>

jobVars == <<jobs, jobsPc, firstRejected, errorLog>>

retryVars == <<maxRetries, baseDelayMs, maxDelayMs, backoffMultiplier,
               retryAttempt, retryPc, fnCalls, fnErrors, delays, onRetryArgs,
               thrownError>>

trustVars == <<trustedHandles, pollerConfig, reread, trustPc, author,
               mentionsLeft, executed>>

setVars == <<botConfig, liveBot, startedWith, lastPass, setCmd, setOutcome,
             setCmds>>

saVars == <<liveSet, pollerSet, syncTimers, pollTimers, saPc, stopAllDone>>

vars == <<mgrVars, instVars, postVars, cmdVars, profVars, parseVars, retryVars,
          jobVars, trustVars, setVars, saVars>>

\* What the actions of one component leave alone: the other components.
MgrFrame ==
  UNCHANGED <<instVars, postVars, cmdVars, profVars, parseVars, retryVars,
              jobVars, trustVars, setVars, saVars>>
InstFrame ==
  UNCHANGED <<mgrVars, postVars, cmdVars, profVars, parseVars, retryVars,
              jobVars, trustVars, setVars, saVars>>
PostsFrame ==
  UNCHANGED <<mgrVars, instVars, cmdVars, profVars, parseVars, retryVars,
              jobVars, trustVars, setVars, saVars>>
CmdFrame ==
  UNCHANGED <<mgrVars, instVars, postVars, profVars, parseVars, retryVars,
              jobVars, trustVars, setVars, saVars>>
ProfFrame ==
  UNCHANGED <<mgrVars, instVars, postVars, cmdVars, parseVars, retryVars,
              jobVars, trustVars, setVars, saVars>>
RetryFrame ==
  UNCHANGED <<mgrVars, instVars, postVars, cmdVars, profVars, parseVars, jobVars, trustVars, setVars, saVars>>
JobsFrame ==
  UNCHANGED <<mgrVars, instVars, postVars, cmdVars, profVars, parseVars, retryVars, trustVars, setVars, saVars>>
ParseFrame ==
  UNCHANGED <<mgrVars, instVars, postVars, cmdVars, profVars, retryVars,
              jobVars, trustVars, setVars, saVars>>
TrustFrame ==
  UNCHANGED <<mgrVars, instVars, postVars, cmdVars, profVars, parseVars,
              retryVars, jobVars, setVars, saVars>>
SetFrame ==
  UNCHANGED <<mgrVars, instVars, postVars, cmdVars, profVars, parseVars,
              retryVars, jobVars, trustVars, saVars>>
SaFrame ==
  UNCHANGED <<mgrVars, instVars, postVars, cmdVars, profVars, parseVars,
              retryVars, jobVars, trustVars, setVars>>

\* ------------------------------------------------------------------------
\* BotManager and BotInstance
\* ------------------------------------------------------------------------
NoCall == [kind |-> "none", bot |-> 0, pc |-> "idle", waitOn |-> 0]
DoneCall == [kind |-> "done", bot |-> 0, pc |-> "done", waitOn |-> 0]
NoInst == [bot |-> 0, isRunning |-> FALSE, syncInterval |-> FALSE]
NoRet == [op |-> "none", bot |-> 0, err |-> "none"]

Returned(op, b, err) == [op |-> op, bot |-> b, err |-> err]

FreeCalls == {c \in CallIds : calls[c].kind = "none"}

Min(S) == CHOOSE x \in S : \A y \in S : x <= y

\* An instance nothing can reach any more: not in the map, its start() has
\* returned, no timer.
Unreachable(i, bs, cs, is) ==
  /\ \A b \in BotIds : bs[b] # i
  /\ cs[i].pc \notin {"starting"}
  /\ ~is[i].syncInterval

Collect(bs, cs, is) ==
  [i \in CallIds |-> IF Unreachable(i, bs, cs, is) THEN NoInst ELSE is[i]]

InstStopM(r) == r

\* BotInstance.stop()
InstStop(r) ==
  IF ~r.isRunning THEN r
  ELSE [r EXCEPT !.isRunning = FALSE, !.syncInterval = FALSE]

MgrInit ==
  /\ bots = [b \in BotIds |-> 0]
  /\ commandPollers = {}
  /\ xClient = 0
  /\ xClientPromise = 0
  /\ resolved = {}
  /\ authConfigured \in BOOLEAN
  /\ calls = [c \in CallIds |-> NoCall]
  /\ insts = [i \in CallIds |-> NoInst]
  /\ authAttempts = 0
  /\ ret = NoRet

StartGuardM(b) == TRUE

\* BotManager.start(botId), up to its first await (loadBotConfig).
StartGuard(b) == bots[b] = 0

StartCall(b) ==
  /\ MgrFrame
  /\ ret' = NoRet
  /\ FreeCalls # {}
  /\ StartGuard(b)
  /\ calls' = [calls EXCEPT ![Min(FreeCalls)] =
                 [NoCall EXCEPT !.kind = "start", !.bot = b, !.pc = "load"]]
  /\ UNCHANGED <<bots, commandPollers, xClient, xClientPromise, resolved,
                 authConfigured, insts, authAttempts>>

\* start() on a bot id that is in the map throws 'already running'.
StartRejected(b) ==
  /\ MgrFrame
  /\ ~StartGuard(b)
  /\ ret' = Returned("start", b, "already running")
  /\ UNCHANGED <<bots, commandPollers, xClient, xClientPromise, resolved,
                 authConfigured, calls, insts, authAttempts>>

\* executor.restart(id), issued by the bot's command poller, up to its first
\* await: stop and drop the old instance, then reload the configuration.
RestartCall(b) ==
  /\ MgrFrame
  /\ ret' = NoRet
  /\ FreeCalls # {}
  /\ b \in commandPollers
  /\ \A c \in CallIds : ~(calls[c].kind = "restart" /\ calls[c].bot = b
                          /\ calls[c].pc # "done")
  /\ LET c == Min(FreeCalls)
         cs == [calls EXCEPT ![c] =
                  [NoCall EXCEPT !.kind = "restart", !.bot = b, !.pc = "load"]]
         bs == [bots EXCEPT ![b] = 0]
         is == IF bots[b] = 0 THEN insts
               ELSE [insts EXCEPT ![bots[b]] = InstStop(@)]
     IN /\ calls' = cs
        /\ bots' = bs
        /\ insts' = Collect(bs, cs, is)
  /\ UNCHANGED <<commandPollers, xClient, xClientPromise, resolved,
                 authConfigured, authAttempts>>

\* new BotInstance(...); setupBotEvents; bot.start() up to its first await:
\* isRunning = true.
Construct(c, is) ==
  [is EXCEPT ![c] = [NoInst EXCEPT !.bot = calls[c].bot, !.isRunning = TRUE]]

\* loadBotConfig() resolves; the caller enters ensureXClient() and runs up to
\* its next await.
LoadDone(c) ==
  /\ MgrFrame
  /\ ret' = NoRet
  /\ calls[c].pc = "load"
  /\ IF xClient # 0
     THEN /\ calls' = [calls EXCEPT ![c].pc = "starting"]
          /\ insts' = Construct(c, insts)
     ELSE /\ calls' = [calls EXCEPT ![c] =
                         IF xClientPromise # 0
                         THEN [@ EXCEPT !.pc = "awaitShared", !.waitOn = xClientPromise]
                         ELSE [@ EXCEPT !.pc = "auth"]]
          /\ UNCHANGED insts
  /\ UNCHANGED <<bots, commandPollers, xClient, xClientPromise, resolved,
                 authConfigured, authAttempts>>

\* getTwitterAuthDecrypted() resolves inside ensureXClient(): without
\* credentials it throws, otherwise createTwitterClient() is called.
AuthDone(c) ==
  /\ MgrFrame
  /\ ret' = NoRet
  /\ calls[c].pc = "auth"
  /\ IF authConfigured
     THEN /\ xClientPromise' = c
          /\ authAttempts' = authAttempts + 1
          /\ calls' = [calls EXCEPT ![c].pc = "awaitOwn"]
     ELSE /\ calls' = [calls EXCEPT ![c] = DoneCall]
          /\ UNCHANGED <<xClientPromise, authAttempts>>
  /\ UNCHANGED <<bots, commandPollers, xClient, resolved, authConfigured, insts>>

\* createTwitterClient() of activation c resolves and its creator resumes:
\* this.xClient = client; finally this.xClientPromise = null.
ClientCreated(c) ==
  /\ MgrFrame
  /\ ret' = NoRet
  /\ calls[c].pc = "awaitOwn"
  /\ xClient' = c
  /\ xClientPromise' = 0
  /\ resolved' = resolved \cup {c}
  /\ calls' = [calls EXCEPT ![c].pc = "starting"]
  /\ insts' = Construct(c, insts)
  /\ UNCHANGED <<bots, commandPollers, authConfigured, authAttempts>>

\* A caller that returned the in-flight promise resumes once it resolved.
WaiterResume(c) ==
  /\ MgrFrame
  /\ ret' = NoRet
  /\ calls[c].pc = "awaitShared"
  /\ calls[c].waitOn \in resolved
  /\ calls' = [calls EXCEPT ![c].pc = "starting", ![c].waitOn = 0]
  /\ insts' = Construct(c, insts)
  /\ UNCHANGED <<bots, commandPollers, xClient, xClientPromise, resolved,
                 authConfigured, authAttempts>>

\* BotInstance.start() throws: no synchronizer could be built.
StartFailed(c) ==
  /\ MgrFrame
  /\ ret' = NoRet
  /\ calls[c].pc = "starting"
  /\ LET cs == [calls EXCEPT ![c] = DoneCall]
         is == [insts EXCEPT ![c].isRunning = FALSE]
     IN /\ calls' = cs
        /\ insts' = Collect(bots, cs, is)
  /\ UNCHANGED <<bots, commandPollers, xClient, xClientPromise, resolved,
                 authConfigured, authAttempts>>

\* BotInstance.start() resolves: the initial performSync() has settled and
\* setInterval is armed. The manager stores the instance in the map; start()
\* goes on to startCommandPoller(), which first drops an existing poller.
Started(c) ==
  /\ MgrFrame
  /\ ret' = NoRet
  /\ calls[c].pc = "starting"
  /\ LET b == calls[c].bot
         cs == [calls EXCEPT ![c] =
                  IF calls[c].kind = "start" THEN [@ EXCEPT !.pc = "poller"]
                  ELSE DoneCall]
         bs == [bots EXCEPT ![b] = c]
         is == [insts EXCEPT ![c].syncInterval = TRUE]
     IN /\ calls' = cs
        /\ bots' = bs
        /\ insts' = Collect(bs, cs, is)
        /\ commandPollers' = IF calls[c].kind = "start"
                             THEN commandPollers \ {b} ELSE commandPollers
  /\ UNCHANGED <<xClient, xClientPromise, resolved, authConfigured,
                 authAttempts>>

\* startCommandPoller() finishes: with commands enabled and a bluesky
\* destination the poller is started and stored.
PollerDone(c, enabled) ==
  /\ MgrFrame
  /\ ret' = NoRet
  /\ calls[c].pc = "poller"
  /\ calls' = [calls EXCEPT ![c] = DoneCall]
  /\ commandPollers' = IF enabled THEN commandPollers \cup {calls[c].bot}
                       ELSE commandPollers
  /\ UNCHANGED <<bots, xClient, xClientPromise, resolved, authConfigured, insts,
                 authAttempts>>

\* BotManager.isRunning(botId)
MgrIsRunning(b) == bots[b] # 0

\* stop() on a bot id that is not in the map throws 'not running'.
StopRejected(b) ==
  /\ MgrFrame
  /\ bots[b] = 0
  /\ ret' = Returned("stop", b, "not running")
  /\ UNCHANGED <<bots, commandPollers, xClient, xClientPromise, resolved,
                 authConfigured, calls, insts, authAttempts>>

\* BotManager.stop(botId) on a bot in the map.
Stop(b) ==
  /\ MgrFrame
  /\ ret' = Returned("stop", b, "none")
  /\ bots[b] # 0
  /\ LET bs == [bots EXCEPT ![b] = 0]
         is == [insts EXCEPT ![bots[b]] = InstStop(@)]
     IN /\ bots' = bs
        /\ insts' = Collect(bs, calls, is)
  /\ commandPollers' = commandPollers \ {b}
  /\ UNCHANGED <<xClient, xClientPromise, resolved, authConfigured, calls,
                 authAttempts>>

MgrNext ==
  \/ \E b \in BotIds : StartCall(b) \/ StartRejected(b) \/ RestartCall(b) \/ Stop(b)
                      \/ StopRejected(b)
  \/ \E c \in CallIds :
       \/ LoadDone(c) \/ AuthDone(c) \/ ClientCreated(c) \/ WaiterResume(c)
       \/ StartFailed(c) \/ Started(c)
       \/ \E enabled \in BOOLEAN : PollerDone(c, enabled)

\* ------------------------------------------------------------------------
\* One BotInstance: start(), performSync(), the interval, stop()
\* ------------------------------------------------------------------------
NoPass == [attempt |-> 0, delay |-> FALSE]
InFlight == {p \in PassIds : passes[p].attempt > 0}
FreePasses == PassIds \ InFlight

InstInit ==
  /\ isRunning = FALSE
  /\ syncInterval = FALSE
  /\ status = "stopped"
  /\ nextSyncAt = FALSE
  /\ errorMessage = FALSE
  /\ startPc = "new"
  /\ passes = [p \in PassIds |-> NoPass]
  /\ synchronizers = 0
  /\ method = "none"
  /\ events = {}
  /\ registered = FALSE
  /\ lastFailure = "none"

\* start() up to its first await: isRunning = true, then ensureTwitterAuth().
InstStart ==
  /\ InstFrame
  /\ lastFailure' = "none"
  /\ startPc = "new"
  /\ ~isRunning
  /\ isRunning' = TRUE
  /\ startPc' = "auth"
  /\ method' = "start"
  /\ events' = {}
  /\ UNCHANGED <<syncInterval, status, nextSyncAt, errorMessage, passes,
                 synchronizers, registered>>

\* ensureTwitterAuth() returns (it never throws); initializeSynchronizers()
\* is awaited.
InstAuthDone ==
  /\ InstFrame
  /\ lastFailure' = "none"
  /\ startPc = "auth"
  /\ startPc' = "init"
  /\ method' = "start"
  /\ events' = {}
  /\ UNCHANGED <<isRunning, syncInterval, status, nextSyncAt, errorMessage,
                 passes, synchronizers, registered>>

NoSynchronizersM(n) == FALSE

\* if (this.synchronizers.length === 0)
NoSynchronizers(n) == n = 0

\* initializeSynchronizers() returns with n synchronizers. With none start()
\* throws: isRunning = false, status 'error'. Otherwise the initial
\* performSync() begins.
InstInitDone(n) ==
  /\ InstFrame
  /\ lastFailure' = "none"
  /\ startPc = "init"
  /\ synchronizers' = n
  /\ method' = "start"
  /\ IF NoSynchronizers(n)
     THEN /\ isRunning' = FALSE
          /\ status' = "error"
          /\ errorMessage' = TRUE
          /\ startPc' = "failed"
          /\ events' = {"statusChange"}
          /\ UNCHANGED passes
     ELSE /\ passes' = [passes EXCEPT ![Min(FreePasses)] =
                         [attempt |-> 1, delay |-> FALSE]]
          /\ startPc' = "firstPass"
          /\ events' = {}
          /\ UNCHANGED <<isRunning, status, errorMessage>>
  /\ UNCHANGED <<syncInterval, nextSyncAt, registered>>

AfterPassM(p) == UNCHANGED <<syncInterval, startPc, registered>>

\* After performSync() p has returned: the start() that awaited it arms the
\* interval and resolves, and its caller stores the instance.
AfterPass(p) ==
  IF startPc = "firstPass"
  THEN syncInterval' = TRUE /\ startPc' = "started" /\ registered' = TRUE
  ELSE UNCHANGED <<syncInterval, startPc, registered>>

SuccessUpdateM == [status |-> "running", errorMessage |-> TRUE]

\* updateStatus({status: "running", ..., errorMessage: undefined})
SuccessUpdate == [status |-> "running", errorMessage |-> FALSE]

\* An attempt of performSync() p succeeds.
PassSucceeds(p) ==
  /\ InstFrame
  /\ lastFailure' = "none"
  /\ passes[p].attempt > 0 /\ ~passes[p].delay
  /\ status' = SuccessUpdate.status
  /\ nextSyncAt' = TRUE
  /\ errorMessage' = SuccessUpdate.errorMessage
  /\ passes' = [passes EXCEPT ![p] = NoPass]
  /\ method' = "performSync"
  /\ events' = {"statusChange", "syncComplete"}
  /\ AfterPass(p)
  /\ UNCHANGED <<isRunning, synchronizers>>

ShouldRetryM(transient, a) == transient

\* if (this.isTransientWebSocketError(error) && attempt < MAX_SYNC_RETRIES)
ShouldRetry(transient, a) == transient /\ a < MAX_SYNC_RETRIES

\* An attempt of performSync() p throws; a transient WebSocket error is
\* retried after RETRY_DELAY_MS while attempts remain.
PassFails(p, transient) ==
  /\ InstFrame
  /\ lastFailure' = IF transient THEN "transient" ELSE "other"
  /\ passes[p].attempt > 0 /\ ~passes[p].delay
  /\ method' = "performSync"
  /\ IF ShouldRetry(transient, passes[p].attempt)
     THEN /\ passes' = [passes EXCEPT ![p].delay = TRUE]
          /\ events' = {}
          /\ UNCHANGED <<status, errorMessage, syncInterval, startPc, registered>>
     ELSE /\ status' = "error"
          /\ errorMessage' = TRUE
          /\ passes' = [passes EXCEPT ![p] = NoPass]
          /\ events' = {"statusChange", "error"}
          /\ AfterPass(p)
  /\ UNCHANGED <<isRunning, nextSyncAt, synchronizers>>

\* The retry delay of performSync() p is over: next attempt.
RetryDelayDone(p) ==
  /\ InstFrame
  /\ lastFailure' = "none"
  /\ passes[p].delay
  /\ passes' = [passes EXCEPT ![p] = [attempt |-> @.attempt + 1, delay |-> FALSE]]
  /\ method' = "performSync"
  /\ events' = {}
  /\ UNCHANGED <<isRunning, syncInterval, status, nextSyncAt, errorMessage,
                 startPc, synchronizers, registered>>

\* The setInterval callback fires: if (this.isRunning) this.performSync().
TickStartsPass == isRunning

TickM ==
  /\ InstFrame
  /\ lastFailure' = "none"
  /\ startPc = "started"
  /\ FreePasses # {}
  /\ passes' = [passes EXCEPT ![Min(FreePasses)] =
                  [attempt |-> 1, delay |-> FALSE]]
  /\ method' = "timer"
  /\ events' = {}
  /\ UNCHANGED <<isRunning, syncInterval, status, nextSyncAt, errorMessage,
                 startPc, synchronizers, registered>>

Tick ==
  /\ InstFrame
  /\ lastFailure' = "none"
  /\ syncInterval
  /\ FreePasses # {}
  /\ IF TickStartsPass
     THEN passes' = [passes EXCEPT ![Min(FreePasses)] =
                       [attempt |-> 1, delay |-> FALSE]]
     ELSE UNCHANGED passes
  /\ method' = "timer"
  /\ events' = {}
  /\ UNCHANGED <<isRunning, syncInterval, status, nextSyncAt, errorMessage,
                 startPc, synchronizers, registered>>

StopActsM == TRUE

\* stop(): if (!this.isRunning) return;
StopActs == isRunning

\* stop(): the manager calls it on instances it holds in its map, that is
\* after start() has resolved.
InstStopCall ==
  /\ InstFrame
  /\ lastFailure' = "none"
  /\ startPc = "started"
  /\ method' = "stop"
  /\ IF ~StopActs
     THEN /\ events' = {}
          /\ UNCHANGED <<isRunning, syncInterval, status, nextSyncAt>>
     ELSE /\ isRunning' = FALSE
          /\ syncInterval' = FALSE
          /\ status' = "stopped"
          /\ nextSyncAt' = FALSE
          /\ events' = {"statusChange"}
  /\ UNCHANGED <<errorMessage, startPc, passes, synchronizers, registered>>

InstNext ==
  \/ InstStart \/ InstAuthDone \/ InstStopCall \/ Tick
  \/ \E n \in 0..NumPlatforms : InstInitDone(n)
  \/ \E p \in PassIds :
       \/ PassSucceeds(p) \/ RetryDelayDone(p)
       \/ \E transient \in BOOLEAN : PassFails(p, transient)

\* ------------------------------------------------------------------------
\* syncPosts: one post-sync pass after the other
\* ------------------------------------------------------------------------
NoResult == [p \in Platforms |-> "none"]

PostsInit ==
  /\ feed = <<>>
  /\ validPosts = {}
  /\ TweetSynced = {}
  /\ TweetMap = {}
  /\ forceSyncPosts \in BOOLEAN
  /\ maxCached \in 1..MaxCutoff
  /\ hasSyncPost \in SUBSET Platforms
  /\ postPc = "idle"
  /\ counter = 0
  /\ cachedCounter = 0
  /\ metaTweet = 0
  /\ cur = 0
  /\ attempt = 0
  /\ called = {}
  /\ inserts = {}
  /\ lookups = 0
  /\ syncedAtStart = {}
  /\ result = NoResult
  /\ errorLogged = {}
  /\ scraperError = FALSE
  /\ repeat = FALSE
  /\ exhausted = 0

\* The upstream account publishes a post between two passes.
NewTweet(valid) ==
  /\ PostsFrame
  /\ postPc \in {"idle", "done"}
  /\ Len(feed) < MaxFeed
  /\ LET id == Len(feed) + 1
     IN /\ feed' = <<id>> \o feed
        /\ validPosts' = IF valid THEN validPosts \cup {id} ELSE validPosts
  /\ postPc' = "idle"
  /\ UNCHANGED <<TweetSynced, TweetMap, forceSyncPosts, maxCached, hasSyncPost,
                 counter, cachedCounter, metaTweet, cur,
                 attempt, called, inserts, lookups,
                 syncedAtStart, result, errorLogged, scraperError, repeat, exhausted>>

\* syncPosts() is called: without a synchronizer that has syncPost it
\* returns at once, otherwise the feed iterator is created.
PassStart ==
  /\ PostsFrame
  /\ postPc \in {"idle", "done"}
  /\ postPc' = IF hasSyncPost = {} THEN "done" ELSE "iter"
  /\ counter' = 0
  /\ cachedCounter' = 0
  /\ metaTweet' = 0
  /\ cur' = 0
  /\ attempt' = 0
  /\ called' = {}
  /\ inserts' = {}
  /\ lookups' = 0
  /\ syncedAtStart' = TweetSynced
  /\ result' = NoResult
  /\ errorLogged' = {}
  /\ scraperError' = FALSE
  /\ repeat' = (postPc = "done" /\ ~scraperError)
  /\ UNCHANGED <<feed, validPosts, TweetSynced, TweetMap, forceSyncPosts,
                 maxCached, hasSyncPost, exhausted>>

StopEarlyM(cc) == cc > maxCached

\* if (cachedCounter >= MAX_NEW_CONSECUTIVE_CACHED) break
StopEarly(cc) == cc >= maxCached

IsCachedM(t) == t \in TweetSynced /\ forceSyncPosts

\* if (synced && synced.synced !== 0 && !FORCE_SYNC_POSTS)
IsCached(t) == t \in TweetSynced /\ ~forceSyncPosts

\* The synchronizer after p that has syncPost; 0 when there is none.
NextSynchronizer(p) ==
  LET rest == {q \in hasSyncPost : q > p}
  IN IF rest = {} THEN 0 ELSE Min(rest)

\* The iterator yields the next post: the body of the for-await loop up to
\* its first await.
IterNext ==
  /\ PostsFrame
  /\ postPc = "iter"
  /\ counter < Len(feed)
  /\ counter' = counter + 1
  /\ LET t == feed[counter + 1]
     IN IF StopEarly(cachedCounter)
        THEN /\ postPc' = "done"
             /\ UNCHANGED <<cachedCounter, lookups, metaTweet, cur, attempt,
                            result, errorLogged>>
        ELSE IF t \notin validPosts
        THEN UNCHANGED <<postPc, cachedCounter, lookups, metaTweet, cur,
                         attempt, result, errorLogged>>
        ELSE /\ lookups' = lookups + 1
             /\ IF IsCached(t)
                THEN /\ cachedCounter' = cachedCounter + 1
                     /\ UNCHANGED <<postPc, metaTweet, cur, attempt, result,
                                    errorLogged>>
                ELSE /\ cachedCounter' = 0
                     /\ postPc' = "sync"
                     /\ metaTweet' = t
                     /\ cur' = NextSynchronizer(0)
                     /\ attempt' = 0
                     /\ result' = NoResult
                     /\ errorLogged' = {}
  /\ UNCHANGED <<feed, validPosts, TweetSynced, TweetMap, forceSyncPosts,
                 maxCached, hasSyncPost, called, inserts, syncedAtStart,
                 scraperError, repeat, exhausted>>

\* The iterator is exhausted: the pass returns.
IterEnd ==
  /\ PostsFrame
  /\ postPc = "iter"
  /\ counter = Len(feed)
  /\ postPc' = "done"
  /\ UNCHANGED <<feed, validPosts, TweetSynced, TweetMap, forceSyncPosts,
                 maxCached, hasSyncPost, counter, cachedCounter, metaTweet, cur,
                 attempt,
                 called, inserts, lookups, syncedAtStart, result, errorLogged,
                 scraperError, repeat, exhausted>>

\* The iterator throws: caught around the loop, logged, the pass returns.
ScraperFails ==
  /\ PostsFrame
  /\ postPc = "iter"
  /\ postPc' = "done"
  /\ scraperError' = TRUE
  /\ UNCHANGED <<feed, validPosts, TweetSynced, TweetMap, forceSyncPosts,
                 maxCached, hasSyncPost, counter, cachedCounter, metaTweet, cur,
                 attempt,
                 called, inserts, lookups, syncedAtStart, result, errorLogged,
                 repeat, exhausted>>

MarkedM(t) == TweetSynced

\* Mark as synced: insert into TweetSynced, on conflict set synced = 1.
Marked(t) == TweetSynced \cup {t}

PlatformCatchM == "tweet"

\* Which handler takes an error thrown by the body of the synchronizer loop:
\* "platform" is the try/catch inside the loop, "tweet" the one around it.
PlatformCatch == "platform"

AdvanceM(p) == cur' = 0 /\ attempt' = 0 /\ postPc' = "mark"

\* The inner loop moves on to the next synchronizer, or leaves the loop.
Advance(p) ==
  /\ cur' = NextSynchronizer(p)
  /\ attempt' = 0
  /\ postPc' = IF NextSynchronizer(p) = 0 THEN "mark" ELSE "sync"

\* The columns of a TweetMap row on which two rows conflict.
ConflictKey(rec) == <<rec[1], rec[2]>>

HasRecord(t, p) == \E rec \in TweetMap : ConflictKey(rec) = <<t, p>>

InsertRowM(rows, rec) == rows \cup {rec}

\* db.insert(TweetMap).values(row).onConflictDoNothing()
InsertRow(rows, rec) ==
  IF \E old \in rows : ConflictKey(old) = ConflictKey(rec) THEN rows
  ELSE rows \cup {rec}

\* JSON.stringify(syncRes.store): every delivery creates a remote post of
\* its own, so the store returned when a post is delivered again ("other")
\* differs from the one on record ("first").
StoreStr(t, p) == IF HasRecord(t, p) THEN "other" ELSE "first"

\* One call of s.syncPost() inside withRetry, and what follows it up to the
\* next call: on success the TweetMap insert (on conflict do nothing); on
\* failure a retry while attempts remain, else the error reaches a handler.
SyncPostCall(ok) ==
  /\ PostsFrame
  /\ postPc = "sync"
  /\ called' = called \cup {<<metaTweet, cur>>}
  /\ IF ok
     THEN /\ TweetMap' =
               InsertRow(TweetMap, <<metaTweet, cur, StoreStr(metaTweet, cur)>>)
          /\ inserts' =
               inserts \cup {<<metaTweet, cur, StoreStr(metaTweet, cur)>>}
          /\ result' = [result EXCEPT ![cur] = "ok"]
          /\ Advance(cur)
          /\ UNCHANGED <<errorLogged, exhausted>>
     ELSE IF attempt < SyncPostMaxRetries
     THEN /\ attempt' = attempt + 1
          /\ UNCHANGED <<TweetMap, inserts, result, cur, postPc, errorLogged,
                         exhausted>>
     ELSE /\ exhausted < MaxExhausted
          /\ exhausted' = exhausted + 1
          /\ result' = [result EXCEPT ![cur] = "fail"]
          /\ IF PlatformCatch = "platform"
             THEN /\ errorLogged' = errorLogged \cup {cur}
                  /\ Advance(cur)
             ELSE /\ postPc' = "iter"
                  /\ UNCHANGED <<errorLogged, cur, attempt>>
          /\ UNCHANGED <<TweetMap, inserts>>
  /\ UNCHANGED <<feed, validPosts, TweetSynced, forceSyncPosts, maxCached,
                 hasSyncPost, counter, cachedCounter, metaTweet, lookups,
                 syncedAtStart, scraperError, repeat>>

\* After the loop over the synchronizers the post is marked as synced,
\* whatever the synchronizers' outcomes were.
MarkSynced ==
  /\ PostsFrame
  /\ postPc = "mark"
  /\ TweetSynced' = Marked(metaTweet)
  /\ postPc' = "iter"
  /\ UNCHANGED <<feed, validPosts, TweetMap, forceSyncPosts, maxCached,
                 hasSyncPost, counter, cachedCounter, metaTweet, cur,
                 attempt, called,
                 inserts, lookups, syncedAtStart, result, errorLogged,
                 scraperError, repeat, exhausted>>

PostsNext ==
  \/ PassStart \/ IterNext \/ IterEnd \/ ScraperFails \/ MarkSynced
  \/ \E valid \in BOOLEAN : NewTweet(valid)
  \/ \E ok \in BOOLEAN : SyncPostCall(ok)

\* The state of syncPosts while another component is under study.
PostsRest ==
  PostsInit /\ ~forceSyncPosts /\ maxCached = 1 /\ hasSyncPost = Platforms

\* ------------------------------------------------------------------------
\* The command channel of one bot: BotManager.start / stop /
\* startCommandPoller, CommandPoller.start / stop / poll / processMention
\* ------------------------------------------------------------------------
Kinds == {"self", "untrusted", "restart", "sync"}

\* A poller slot: st is where the call that builds the poller stands
\* ("start": inside BotManager.start() before bots.set; "config": awaiting
\* getCommandConfig; "login": awaiting agent.login), then "live", then
\* "stopped" once stop() has run. A poller of which nothing can run any more
\* is garbage: its slot is free again.
NoPoller ==
  [st |-> "none", armed |-> FALSE, polling |-> FALSE, lastSeenAt |-> 0,
   pollPc |-> "idle", batch |-> <<>>, cur |-> 0, todo |-> <<>>, wrote |-> 0,
   activePolls |-> 0]

FreePollers == {p \in PollerIds : pollers[p].st = "none"}

\* A stopped poller without a poll in flight never runs again.
Tidy(r) == IF r.st = "stopped" /\ r.activePolls = 0 THEN NoPoller ELSE r

\* CommandPoller.stop(): clearInterval, nothing else.
PollerStop(r) == Tidy([r EXCEPT !.armed = FALSE, !.st = "stopped"])

CmdInit ==
  /\ botLive = FALSE
  /\ cmdEntry = 0
  /\ pollers = [p \in PollerIds |-> NoPoller]
  /\ cursor = 0
  /\ arrived = 0
  /\ kindOf = [m \in Mentions |-> "self"]
  /\ execCount = [m \in Mentions |-> 0]
  /\ cmdEnabled = FALSE

\* PUT /:id/commands: upsertCommandConfig() stores the enabled flag. No
\* poller is started or stopped.
UpsertCommandConfig(v) ==
  /\ CmdFrame
  /\ cmdEnabled # v
  /\ cmdEnabled' = v
  /\ UNCHANGED <<botLive, cmdEntry, pollers, cursor, arrived, kindOf, execCount>>

\* Somebody mentions the bot's account; the server stamps the notification.
Arrive(k) ==
  /\ CmdFrame
  /\ UNCHANGED cmdEnabled
  /\ arrived < MaxMentions
  /\ arrived' = arrived + 1
  /\ kindOf' = [kindOf EXCEPT ![arrived + 1] = k]
  /\ UNCHANGED <<botLive, cmdEntry, pollers, cursor, execCount>>

\* BotManager.start(botId) passes its 'already running' test and awaits
\* (loadBotConfig, ensureXClient, bot.start()).
CmdStartCall ==
  /\ CmdFrame
  /\ UNCHANGED cmdEnabled
  /\ ~botLive
  /\ FreePollers # {}
  /\ pollers' = [pollers EXCEPT ![Min(FreePollers)].st = "start"]
  /\ UNCHANGED <<botLive, cmdEntry, cursor, arrived, kindOf, execCount>>

\* bot.start() has resolved: bots.set, then startCommandPoller() up to its
\* first await: an existing poller is stopped and its entry deleted.
CmdStarted(p) ==
  /\ CmdFrame
  /\ UNCHANGED cmdEnabled
  /\ pollers[p].st = "start"
  /\ botLive' = TRUE
  /\ cmdEntry' = 0
  /\ pollers' = [q \in PollerIds |->
                   IF q = p THEN [pollers[q] EXCEPT !.st = "config"]
                   ELSE IF q = cmdEntry THEN PollerStop(pollers[q])
                   ELSE pollers[q]]
  /\ UNCHANGED <<cursor, arrived, kindOf, execCount>>

\* getCommandConfig() resolves. Without enabled commands or an enabled
\* bluesky platform startCommandPoller returns; otherwise the poller is
\* constructed with lastSeenAt: cmdConfig.lastSeenAt and start() awaits login.
ConfigRead(p, enabled) ==
  /\ CmdFrame
  /\ UNCHANGED cmdEnabled
  /\ pollers[p].st = "config"
  /\ enabled => cmdEnabled
  /\ pollers' = [pollers EXCEPT ![p] =
                   IF enabled THEN [@ EXCEPT !.st = "login", !.lastSeenAt = cursor]
                   ELSE NoPoller]
  /\ UNCHANGED <<botLive, cmdEntry, cursor, arrived, kindOf, execCount>>

\* if (!this.agent || this.polling) return; the agent is set once logged in.
PollGuard(r) == ~r.polling

\* poll() up to its awaits of onConfigRefresh() and listNotifications(); the
\* refreshed configuration is not part of the model, the two are one step.
PollBegin(r) ==
  IF PollGuard(r)
  THEN [r EXCEPT !.polling = TRUE, !.pollPc = "list",
                 !.activePolls = @ + 1]
  ELSE r

\* agent.login() resolves: poll() is called, the interval is armed, and
\* startCommandPoller stores the poller. A failed login is logged and the
\* poller dropped.
LoginDone(p, ok) ==
  /\ CmdFrame
  /\ UNCHANGED cmdEnabled
  /\ pollers[p].st = "login"
  /\ IF ok
     THEN /\ pollers' = [pollers EXCEPT ![p] =
                           PollBegin([@ EXCEPT !.st = "live", !.armed = TRUE])]
          /\ cmdEntry' = p
     ELSE /\ pollers' = [pollers EXCEPT ![p] = NoPoller]
          /\ UNCHANGED cmdEntry
  /\ UNCHANGED <<botLive, cursor, arrived, kindOf, execCount>>

\* BotManager.stop(botId): stop and delete the poller in the map, stop the
\* bot, delete it.
CmdStop ==
  /\ CmdFrame
  /\ UNCHANGED cmdEnabled
  /\ botLive
  /\ botLive' = FALSE
  /\ cmdEntry' = 0
  /\ pollers' = [q \in PollerIds |->
                   IF q = cmdEntry THEN PollerStop(pollers[q]) ELSE pollers[q]]
  /\ UNCHANGED <<cursor, arrived, kindOf, execCount>>

\* The process dies: timers, pollers and calls in flight are gone; the
\* database and the notifications stay.
Crash ==
  /\ CmdFrame
  /\ UNCHANGED cmdEnabled
  /\ botLive' = FALSE
  /\ cmdEntry' = 0
  /\ pollers' = [q \in PollerIds |-> NoPoller]
  /\ UNCHANGED <<cursor, arrived, kindOf, execCount>>

\* The setInterval callback of a started poller fires.
PollTick(p) ==
  /\ CmdFrame
  /\ UNCHANGED cmdEnabled
  /\ pollers[p].st = "live"
  /\ pollers[p].armed
  /\ pollers' = [pollers EXCEPT ![p] = PollBegin(@)]
  /\ UNCHANGED <<botLive, cmdEntry, cursor, arrived, kindOf, execCount>>

\* res.data.notifications: the server lists the newest notification first.
Notifications == [i \in 1..arrived |-> arrived + 1 - i]

RECURSIVE Insert(_, _)
Insert(x, sq) ==
  IF sq = <<>> THEN <<x>>
  ELSE IF x <= Head(sq) THEN <<x>> \o sq
  ELSE <<Head(sq)>> \o Insert(x, Tail(sq))

SortAscM(sq) == sq

\* .sort((a, b) => a.indexedAt.localeCompare(b.indexedAt))
RECURSIVE SortAsc(_)
SortAsc(sq) ==
  IF sq = <<>> THEN <<>> ELSE Insert(Head(sq), SortAsc(Tail(sq)))

\* The mentions poller r acts on: newer than its lastSeenAt, not its own,
\* oldest first.
NewMentions(r) ==
  LET IsNew(m) == r.lastSeenAt = 0 \/ m > r.lastSeenAt
      NotSelf(m) == kindOf[m] # "self"
  IN SortAsc(SelectSeq(SelectSeq(Notifications, IsNew), NotSelf))

\* The awaited calls processMention makes after the cursor write: nothing
\* for an untrusted author, reply then executor.restart, executor.sync then
\* reply.
Acts(k) ==
  CASE k = "restart" -> <<"reply", "exec">>
    [] k = "sync" -> <<"exec", "reply">>
    [] OTHER -> <<>>

\* The poll is over: finally { this.polling = false }.
FinishPoll(r) ==
  Tidy([r EXCEPT !.polling = FALSE, !.pollPc = "idle", !.batch = <<>>,
                 !.cur = 0, !.todo = <<>>, !.activePolls = @ - 1])

AwaitsWriteM == FALSE

\* processMention awaits onLastSeenAtUpdate() before anything else.
AwaitsWrite == TRUE

RECURSIVE NextMention(_)

\* processMention after the cursor write, up to its next await.
StartActs(r) ==
  IF Acts(kindOf[r.cur]) = <<>> THEN NextMention(r)
  ELSE [r EXCEPT !.todo = Acts(kindOf[r.cur]), !.pollPc = "act"]

\* processMention(Head(batch)) up to its first await:
\* this.lastSeenAt = notification.indexedAt, then the cursor write.
ProcessMention(r) ==
  LET m == Head(r.batch)
      r1 == [r EXCEPT !.cur = m, !.batch = Tail(@), !.lastSeenAt = m,
                      !.todo = <<>>]
  IN IF AwaitsWrite THEN [r1 EXCEPT !.pollPc = "persist"] ELSE StartActs(r1)

\* for (const mention of mentions) await this.processMention(mention);
\* after the last one updateSeenNotifications() is awaited.
NextMention(r) ==
  IF r.batch = <<>>
  THEN [r EXCEPT !.cur = 0, !.todo = <<>>, !.pollPc = "markRead"]
  ELSE ProcessMention(r)

\* The executor is invoked when a poller reaches an 'exec' call.
Bump(r) ==
  IF r.pollPc = "act" /\ Head(r.todo) = "exec"
  THEN [execCount EXCEPT ![r.cur] = IF @ < 2 THEN @ + 1 ELSE @]
  ELSE execCount

MarksReadM(n) == TRUE

\* if (mentions.length > 0) await this.agent.updateSeenNotifications()
MarksRead(n) == n > 0

\* listNotifications() resolves or throws ('Poll failed').
ListDone(p, ok) ==
  /\ CmdFrame
  /\ UNCHANGED cmdEnabled
  /\ pollers[p].pollPc = "list"
  /\ LET r == pollers[p]
         r1 == [r EXCEPT !.batch = NewMentions(r)]
         r2 == IF ~ok THEN FinishPoll(r)
               ELSE IF r1.batch # <<>> THEN ProcessMention(r1)
               ELSE IF MarksRead(Len(r1.batch))
               THEN [r1 EXCEPT !.cur = 0, !.todo = <<>>, !.pollPc = "markRead"]
               ELSE FinishPoll(r)
     IN /\ pollers' = [pollers EXCEPT ![p] = r2]
        /\ execCount' = Bump(r2)
  /\ UNCHANGED <<botLive, cmdEntry, cursor, arrived, kindOf>>

PersistFailsM(r) == StartActs(r)

\* onLastSeenAtUpdate() rejects: processMention rejects, the for loop of
\* poll() is left through catch ('Poll failed') and finally.
PersistFails(r) == FinishPoll(r)

\* updateLastSeenAt() resolves: the row holds the mention's indexedAt; or
\* it rejects and the row is as it was.
PersistDone(p, ok) ==
  /\ CmdFrame
  /\ UNCHANGED cmdEnabled
  /\ pollers[p].pollPc = "persist"
  /\ cursor' = IF ok THEN pollers[p].cur ELSE cursor
  /\ LET r2 == IF ok THEN StartActs([pollers[p] EXCEPT !.wrote = pollers[p].cur])
               ELSE PersistFails(pollers[p])
     IN /\ pollers' = [pollers EXCEPT ![p] = r2]
        /\ execCount' = Bump(r2)
  /\ UNCHANGED <<botLive, cmdEntry, arrived, kindOf>>

ExecutorThrowsM(r) == FinishPoll(r)

\* catch (error) of processMention: the rest of the switch case is skipped
\* and reply(responses.error.replace("{error}", errorMessage)) is awaited.
ExecutorThrows(r) == [r EXCEPT !.todo = <<"errorReply">>]

\* The awaited reply or executor call of the mention at hand returns, or
\* the executor call throws. reply() catches its own errors and never throws.
ActDone(p, ok) ==
  /\ CmdFrame
  /\ UNCHANGED cmdEnabled
  /\ pollers[p].pollPc = "act"
  /\ ok \/ Head(pollers[p].todo) = "exec"
  /\ LET r == pollers[p]
         r2 == IF ~ok THEN ExecutorThrows(r)
               ELSE IF Tail(r.todo) = <<>> THEN NextMention(r)
               ELSE [r EXCEPT !.todo = Tail(@)]
     IN /\ pollers' = [pollers EXCEPT ![p] = r2]
        /\ execCount' = Bump(r2)
  /\ UNCHANGED <<botLive, cmdEntry, cursor, arrived, kindOf>>

\* updateSeenNotifications() returns (or throws): the poll ends.
MarkReadDone(p) ==
  /\ CmdFrame
  /\ UNCHANGED cmdEnabled
  /\ pollers[p].pollPc = "markRead"
  /\ pollers' = [pollers EXCEPT ![p] = FinishPoll(@)]
  /\ UNCHANGED <<botLive, cmdEntry, cursor, arrived, kindOf, execCount>>

CmdNext ==
  \/ CmdStartCall \/ CmdStop \/ Crash
  \/ \E k \in Kinds : Arrive(k)
  \/ \E p \in PollerIds :
       \/ CmdStarted(p) \/ PollTick(p)
       \/ MarkReadDone(p)
       \/ \E b \in BOOLEAN : ConfigRead(p, b) \/ LoginDone(p, b) \/ ListDone(p, b)
                              \/ ActDone(p, b) \/ PersistDone(p, b)
  \/ \E v \in BOOLEAN : UpsertCommandConfig(v)

\* BotManager.start(botId) while no poller object of the bot exists.
ChannelStart ==
  /\ \A p \in PollerIds : pollers[p].st = "none"
  /\ CmdStartCall

\* One command channel at a time: the next poller is built only after the
\* previous one is gone.
ChannelNext ==
  \/ ChannelStart \/ CmdStop \/ Crash
  \/ \E k \in Kinds : Arrive(k)
  \/ \E p \in PollerIds :
       \/ CmdStarted(p) \/ PollTick(p)
       \/ MarkReadDone(p)
       \/ \E b \in BOOLEAN : ConfigRead(p, b) \/ LoginDone(p, b) \/ ListDone(p, b)
                              \/ ActDone(p, b) \/ PersistDone(p, b)
  \/ \E v \in BOOLEAN : UpsertCommandConfig(v)

\* ------------------------------------------------------------------------
\* syncProfile and upsertProfileCache. The avatar block and the banner block
\* of upsertProfileCache are the same code over disjoint variables; a run
\* follows one of them, and the other shows only as a download that throws.
\* ------------------------------------------------------------------------
NoRow == [url |-> 0, hash |-> 0]

\* getBlobHash(blob): the fingerprint of the content
getBlobHash(c) == [sha |-> c].sha

ProfInit ==
  /\ image \in {"pfp", "banner"}
  /\ cache = NoRow
  /\ profPc = "idle"
  /\ fetchedUrl = 0
  /\ row = NoRow
  /\ blob = 0
  /\ imgHash = 0
  /\ changed = FALSE
  /\ destCalls = {}
  /\ lastDownloaded = 0

\* syncProfile up to the end of the select in upsertProfileCache: the
\* profile names URL u for the image; the cached row is read.
ProfileFetch(u) ==
  /\ ProfFrame
  /\ profPc = "idle"
  /\ fetchedUrl' = u
  /\ row' = cache
  /\ blob' = 0
  /\ imgHash' = 0
  /\ changed' = FALSE
  /\ destCalls' = {}
  /\ profPc' = "check"
  /\ UNCHANGED <<image, cache, lastDownloaded>>

\* if (cPfpUrl !== pfpUrl)
UrlDiffersM(r, u) == TRUE

UrlDiffers(r, u) == r.url # u

\* The URL differs from the cached one: download() yields content c, its
\* fingerprint is compared with the cached one.
Download(c) ==
  /\ ProfFrame
  /\ profPc = "check"
  /\ UrlDiffers(row, fetchedUrl)
  /\ fetchedUrl # 0
  /\ blob' = c
  /\ imgHash' = getBlobHash(c)
  /\ changed' = (getBlobHash(c) # row.hash)
  /\ profPc' = "upsert"
  /\ UNCHANGED <<image, cache, fetchedUrl, row, destCalls, lastDownloaded>>

\* The URL equals the cached one: the else branch, nothing is downloaded.
SameUrl ==
  /\ ProfFrame
  /\ profPc = "check"
  /\ ~UrlDiffers(row, fetchedUrl)
  /\ profPc' = "upsert"
  /\ UNCHANGED <<image, cache, fetchedUrl, row, blob, imgHash, changed,
                 destCalls, lastDownloaded>>

\* A download() of this image or of the other one throws: upsertProfileCache
\* and syncProfile reject, the row is not written.
DownloadThrows ==
  /\ ProfFrame
  /\ profPc \in {"check", "upsert"}
  /\ profPc' = "idle"
  /\ UNCHANGED <<image, cache, fetchedUrl, row, blob, imgHash, changed,
                 destCalls, lastDownloaded>>

\* insert ... onConflictDoUpdate: the row takes the fetched URL and the
\* local hash.
Upsert ==
  /\ ProfFrame
  /\ profPc = "upsert"
  /\ cache' = [url |-> fetchedUrl, hash |-> imgHash]
  /\ profPc' = "jobs"
  /\ UNCHANGED <<image, fetchedUrl, row, blob, imgHash, changed, destCalls,
                 lastDownloaded>>

\* The picture / banner jobs of syncProfile. shouldSync is the toggle of the
\* image, capable the synchronizers that implement syncProfilePic /
\* syncBanner; both are read only here.
Dispatch(shouldSync, capable) ==
  /\ ProfFrame
  /\ profPc = "jobs"
  /\ destCalls' = IF shouldSync /\ changed /\ blob # 0 THEN capable ELSE {}
  /\ lastDownloaded' = IF blob # 0 THEN imgHash ELSE lastDownloaded
  /\ profPc' = "idle"
  /\ UNCHANGED <<image, cache, fetchedUrl, row, blob, imgHash, changed>>

ProfNext ==
  \/ \E u \in Urls : ProfileFetch(u)
  \/ \E c \in Contents : Download(c)
  \/ SameUrl
  \/ DownloadThrows
  \/ Upsert
  \/ \E shouldSync \in BOOLEAN, capable \in SUBSET Platforms :
       Dispatch(shouldSync, capable)

ProfRest == ProfInit /\ image = "pfp"

\* ------------------------------------------------------------------------
\* parseCommand and the switch of processMention. A text is the sequence of
\* its whitespace-separated tokens; a token is a command word or one of
\* three other words.
\* ------------------------------------------------------------------------
TOGGLE_COMMANDS == <<"posts", "bio", "avatar", "name", "header", "backdate">>

\* The command words of ParsedCommand.type that have a reply template or an
\* executor operation of their own.
TypeWords ==
  {"restart", "sync", "source", "status", "help", "frequency", "posts", "bio",
   "avatar", "name", "header", "backdate", "mute", "unmute", "last", "stats"}

OtherTokens == {"hi", "on", "5"}

Tokens == TypeWords \cup OtherTokens

Texts == UNION {[1..n -> Tokens] : n \in 0..MaxTokens}

Null == [type |-> "null", args |-> <<>>]

\* Position of the leftmost token '!w' of the text, 0 if there is none.
Find(t, w) ==
  IF \E i \in 1..Len(t) : t[i] = w
  THEN Min({i \in 1..Len(t) : t[i] = w})
  ELSE 0

\* (?:\s+(\S+))? : the token after position i, if there is one.
ArgAfter(t, i) == IF i < Len(t) THEN <<t[i + 1]>> ELSE <<>>

RECURSIVE ParseToggles(_, _)

\* for (const cmd of TOGGLE_COMMANDS) ...; return null
ParseToggles(t, k) ==
  IF k > Len(TOGGLE_COMMANDS) THEN Null
  ELSE IF Find(t, TOGGLE_COMMANDS[k]) # 0
       THEN [type |-> TOGGLE_COMMANDS[k],
             args |-> ArgAfter(t, Find(t, TOGGLE_COMMANDS[k]))]
       ELSE ParseToggles(t, k + 1)

\* parseCommand(text)
parseCommand(t) ==
  IF Find(t, "restart") # 0 THEN [type |-> "restart", args |-> <<>>]
  ELSE IF Find(t, "sync") # 0 THEN [type |-> "sync", args |-> <<>>]
  ELSE IF Find(t, "source") # 0
       THEN [type |-> "source", args |-> ArgAfter(t, Find(t, "source"))]
  ELSE IF Find(t, "help") # 0 THEN [type |-> "help", args |-> <<>>]
  ELSE IF Find(t, "status") # 0 THEN [type |-> "status", args |-> <<>>]
  ELSE IF Find(t, "frequency") # 0
       THEN [type |-> "frequency", args |-> ArgAfter(t, Find(t, "frequency"))]
  ELSE ParseToggles(t, 1)

Reply(template) == [kind |-> "reply", what |-> template]

Exec(operation) == [kind |-> "exec", what |-> operation]

\* parseInt(arg, 10) is a number >= 1
ValidMinutes(a) == a = "5"

\* parseToggle(arg) # null
ValidToggle(a) == a = "on"

\* processMention from the parse on, for a trusted author: the replies and
\* executor calls it makes when none of them throws.
SwitchOn(c) ==
  CASE c.type = "null" -> <<Reply("unknown")>>
    [] c.type = "restart" -> <<Reply("restart"), Exec("restart")>>
    [] c.type = "sync" -> <<Exec("sync"), Reply("sync")>>
    [] c.type = "source" ->
         IF c.args # <<>> THEN <<Reply("sourceChanged"), Exec("changeSource")>>
         ELSE <<Exec("getSource"), Reply("source")>>
    [] c.type = "help" -> <<Reply("help")>>
    [] c.type = "status" -> <<Exec("getStatus"), Reply("status")>>
    [] c.type = "frequency" ->
         IF c.args = <<>> \/ ~ValidMinutes(c.args[1])
         THEN <<Reply("invalidValue")>>
         ELSE <<Exec("setSetting"), Reply("settingChanged")>>
    [] OTHER ->
         IF c.args = <<>> \/ ~ValidToggle(c.args[1])
         THEN <<Reply("invalidValue")>>
         ELSE <<Exec("setSetting"), Reply("settingChanged")>>

ParseInit ==
  /\ text \in Texts
  /\ parsePc = "new"
  /\ command = Null
  /\ outcome = <<>>

\* const command = parseCommand(postText)
Parse ==
  /\ ParseFrame
  /\ parsePc = "new"
  /\ command' = parseCommand(text)
  /\ parsePc' = "parsed"
  /\ UNCHANGED <<text, outcome>>

\* if (!command) reply unknown, else the switch
Handle ==
  /\ ParseFrame
  /\ parsePc = "parsed"
  /\ outcome' = SwitchOn(command)
  /\ parsePc' = "done"
  /\ UNCHANGED <<text, command>>

ParseNext == Parse \/ Handle

ParseRest == ParseInit /\ text = <<>>

\* ------------------------------------------------------------------------
\* syncProfile: the jobs and Promise.all
\* ------------------------------------------------------------------------
MediaDims == {"pic", "banner"}
TextDims == {"bio", "name"}
JobIds == (MediaDims \cup TextDims) \X Platforms

\* upsertProfileCache() has returned; const jobs = [].
JobsInit ==
  /\ jobs = [j \in JobIds |-> "none"]
  /\ jobsPc = "media"
  /\ firstRejected = <<>>
  /\ errorLog = {}

Rejected == {j \in JobIds : jobs[j] = "failed"}

\* await Promise.all(jobs), from the point where every job is in the array:
\* it rejects with the first rejection (first is the job that rejected
\* first), resolves when every job has, and otherwise is pending. On
\* rejection the catch makes one onLog("error", ...) call with that error;
\* syncProfile returns after either.
AwaitAll(js, first) ==
  IF first # <<>>
  THEN jobsPc' = "returned" /\ errorLog' = {first}
  ELSE /\ jobsPc' = IF \A j \in JobIds : js[j] # "running" THEN "returned"
                    ELSE "all"
       /\ UNCHANGED errorLog

StartedJobs(S) == [j \in JobIds |-> IF j \in S THEN "running" ELSE jobs[j]]

\* The picture and banner jobs are pushed: S is what the toggles, the
\* change flags and the synchronizers' capabilities let through. With bio
\* sync on and a biography, shortenedUrlsReplacer() is awaited next.
StartMediaJobs(S, withBio) ==
  /\ JobsFrame
  /\ jobsPc = "media"
  /\ jobs' = StartedJobs(S)
  /\ jobsPc' = IF withBio THEN "replacer" ELSE "text"
  /\ UNCHANGED <<firstRejected, errorLog>>

\* The bio and name jobs are pushed and Promise.all(jobs) is awaited.
StartTextJobs(S) ==
  /\ JobsFrame
  /\ jobsPc \in {"replacer", "text"}
  /\ jobsPc = "text" => \A j \in S : j[1] # "bio"
  /\ jobs' = StartedJobs(S)
  /\ UNCHANGED firstRejected
  /\ AwaitAll(StartedJobs(S), firstRejected)

\* shortenedUrlsReplacer() rejects: syncProfile rejects with its error.
ReplacerThrows ==
  /\ JobsFrame
  /\ jobsPc = "replacer"
  /\ jobsPc' = "threw"
  /\ UNCHANGED <<jobs, firstRejected, errorLog>>

\* The call of destination j[2] for dimension j[1] settles.
JobSettles(j, ok) ==
  /\ JobsFrame
  /\ jobs[j] = "running"
  /\ LET js == [jobs EXCEPT ![j] = IF ok THEN "ok" ELSE "failed"]
         first == IF ~ok /\ firstRejected = <<>> THEN j ELSE firstRejected
     IN /\ jobs' = js
        /\ firstRejected' = first
        /\ IF jobsPc = "all" THEN AwaitAll(js, first)
           ELSE UNCHANGED <<jobsPc, errorLog>>

JobsNext ==
  \/ ReplacerThrows
  \/ \E S \in SUBSET (TextDims \X Platforms) : StartTextJobs(S)
  \/ \E S \in SUBSET (MediaDims \X Platforms), withBio \in BOOLEAN :
       StartMediaJobs(S, withBio)
  \/ \E j \in JobIds, ok \in BOOLEAN : JobSettles(j, ok)

\* ------------------------------------------------------------------------
\* withRetry(fn, options)
\* ------------------------------------------------------------------------
RECURSIVE Pow(_, _)
Pow(b, e) == IF e = 0 THEN 1 ELSE b * Pow(b, e - 1)

MathMin(a, b) == IF a <= b THEN a ELSE b

\* withRetry is called: the options are read, attempt = 0, fn() is awaited.
RetryInit ==
  /\ maxRetries \in 0..MaxRetriesOpt
  /\ baseDelayMs \in 1..MaxBaseDelay
  /\ maxDelayMs \in 1..MaxDelayCap
  /\ backoffMultiplier \in 1..MaxMultiplier
  /\ retryAttempt = 0
  /\ retryPc = "call"
  /\ fnCalls = 1
  /\ fnErrors = <<>>
  /\ delays = <<>>
  /\ onRetryArgs = <<>>
  /\ thrownError = 0

\* return await fn(): fn resolves.
FnResolves ==
  /\ RetryFrame
  /\ retryPc = "call"
  /\ retryPc' = "returned"
  /\ UNCHANGED <<maxRetries, baseDelayMs, maxDelayMs, backoffMultiplier,
                 retryAttempt, fnCalls, fnErrors, delays, onRetryArgs,
                 thrownError>>

MoreAttemptsM(a) == a <= maxRetries

\* if (attempt < maxRetries)
MoreAttempts(a) == a < maxRetries

\* Math.min(baseDelayMs * backoffMultiplier ** attempt, maxDelayMs)
Delay(a) == MathMin(baseDelayMs * Pow(backoffMultiplier, a), maxDelayMs)

\* fn rejects with error e: lastError = e; while attempts remain onRetry is
\* called and the timer awaited, otherwise the loop ends and lastError is
\* thrown.
FnRejects(e) ==
  /\ RetryFrame
  /\ retryPc = "call"
  /\ fnErrors' = Append(fnErrors, e)
  /\ IF MoreAttempts(retryAttempt)
     THEN /\ onRetryArgs' = Append(onRetryArgs, retryAttempt + 1)
          /\ delays' = Append(delays, Delay(retryAttempt))
          /\ retryPc' = "wait"
          /\ UNCHANGED thrownError
     ELSE /\ retryPc' = "thrown"
          /\ thrownError' = e
          /\ UNCHANGED <<onRetryArgs, delays>>
  /\ UNCHANGED <<maxRetries, baseDelayMs, maxDelayMs, backoffMultiplier,
                 retryAttempt, fnCalls>>

\* The timer fires: attempt++, fn() is called again.
DelayOver ==
  /\ RetryFrame
  /\ retryPc = "wait"
  /\ retryAttempt' = retryAttempt + 1
  /\ fnCalls' = fnCalls + 1
  /\ retryPc' = "call"
  /\ UNCHANGED <<maxRetries, baseDelayMs, maxDelayMs, backoffMultiplier,
                 fnErrors, delays, onRetryArgs, thrownError>>

RetryNext == FnResolves \/ DelayOver \/ \E e \in 1..MaxErrors : FnRejects(e)

\* The state of withRetry while another component is under study.
RetryRest ==
  /\ RetryInit
  /\ maxRetries = 0 /\ baseDelayMs = 1 /\ maxDelayMs = 1 /\ backoffMultiplier = 1

\* ------------------------------------------------------------------------
\* CommandPoller: the trusted allow-list
\* ------------------------------------------------------------------------
\* A handle is a string of characters; the letter "a" has both cases.
Handles == {<<"a">>, <<"A">>, <<"b">>, <<"a", "b">>, <<"A", "b">>}
HandleLists == UNION {[1..n -> Handles] : n \in 0..MaxTrusted}

\* String.prototype.toLowerCase, character by character
Lowered == ("A" :> "a") @@ ("O" :> "o") @@ ("N" :> "n")
LowerChar(c) == IF c \in DOMAIN Lowered THEN Lowered[c] ELSE c
toLowerCase(h) == [i \in 1..Len(h) |-> LowerChar(h[i])]

\* this.config.trustedHandles.some(h => h.toLowerCase() ===
\* authorHandle.toLowerCase())
IsTrusted(list, authorHandle) ==
  \E i \in 1..Len(list) : toLowerCase(list[i]) = toLowerCase(authorHandle)

\* The poller is built with the stored configuration.
TrustInit ==
  /\ trustedHandles \in HandleLists
  /\ pollerConfig = trustedHandles
  /\ reread = trustedHandles
  /\ trustPc = "idle"
  /\ author = <<>>
  /\ mentionsLeft = 0
  /\ executed = FALSE

\* upsertCommandConfig({trustedHandles}): an edit of the stored list
EditTrusted(list) ==
  /\ TrustFrame
  /\ list # trustedHandles
  /\ trustedHandles' = list
  /\ executed' = FALSE
  /\ UNCHANGED <<pollerConfig, reread, trustPc, author, mentionsLeft>>

\* poll() up to its first await
TrustPollBegin ==
  /\ TrustFrame
  /\ trustPc = "idle"
  /\ trustPc' = "refresh"
  /\ author' = <<>>
  /\ executed' = FALSE
  /\ UNCHANGED <<trustedHandles, pollerConfig, reread, mentionsLeft>>

\* if (freshConfig) this.config = freshConfig
RefreshM(old, fresh) == old

Refresh(old, fresh) == fresh

\* onConfigRefresh settles: the stored row is read; a rejection ends the poll
\* in its catch.
ConfigRefreshed(ok) ==
  /\ TrustFrame
  /\ trustPc = "refresh"
  /\ executed' = FALSE
  /\ IF ok
       THEN /\ pollerConfig' = Refresh(pollerConfig, trustedHandles)
            /\ reread' = trustedHandles
            /\ trustPc' = "list"
       ELSE /\ trustPc' = "idle"
            /\ UNCHANGED <<pollerConfig, reread>>
  /\ UNCHANGED <<trustedHandles, author, mentionsLeft>>

\* listNotifications settles with n new mentions of other accounts.
TrustListed(n) ==
  /\ TrustFrame
  /\ trustPc = "list"
  /\ mentionsLeft' = n
  /\ trustPc' = IF n = 0 THEN "idle" ELSE "persist"
  /\ executed' = FALSE
  /\ UNCHANGED <<trustedHandles, pollerConfig, reread, author>>

\* processMention from the return of onLastSeenAtUpdate to its next await: the
\* trust check and, for a trusted author, the call of the executor. An
\* untrusted author is logged and the mention is done; a failed write ends
\* the poll in its catch.
TrustChecked(a, ok) ==
  /\ TrustFrame
  /\ trustPc = "persist"
  /\ author' = a
  /\ IF ~ok
       THEN /\ trustPc' = "idle"
            /\ mentionsLeft' = 0
            /\ executed' = FALSE
       ELSE IF IsTrusted(pollerConfig, a)
         THEN /\ executed' = TRUE
              /\ trustPc' = "acted"
              /\ UNCHANGED mentionsLeft
         ELSE /\ executed' = FALSE
              /\ mentionsLeft' = mentionsLeft - 1
              /\ trustPc' = IF mentionsLeft = 1 THEN "idle" ELSE "persist"
  /\ UNCHANGED <<trustedHandles, pollerConfig, reread>>

\* The executor call and the reply settle; the loop goes to the next mention.
TrustActed ==
  /\ TrustFrame
  /\ trustPc = "acted"
  /\ mentionsLeft' = mentionsLeft - 1
  /\ trustPc' = IF mentionsLeft = 1 THEN "idle" ELSE "persist"
  /\ executed' = FALSE
  /\ UNCHANGED <<trustedHandles, pollerConfig, reread, author>>

TrustNext ==
  \/ \E list \in HandleLists : EditTrusted(list)
  \/ TrustPollBegin
  \/ \E ok \in BOOLEAN : ConfigRefreshed(ok)
  \/ \E n \in 0..MaxMentions : TrustListed(n)
  \/ \E a \in Handles, ok \in BOOLEAN : TrustChecked(a, ok)
  \/ TrustActed

\* The allow-list while another component is under study.
TrustRest == TrustInit /\ trustedHandles = <<>>

\* ------------------------------------------------------------------------
\* The setting commands, executor.setSetting and the stored configuration
\* ------------------------------------------------------------------------
SettingKeys ==
  {"frequency", "posts", "bio", "avatar", "name", "header", "backdate"}

\* const fieldMap: Record<SettingKey, string>
fieldMap ==
  [key \in SettingKeys |->
     CASE key = "frequency" -> "syncFrequencyMin"
       [] key = "posts" -> "syncPosts"
       [] key = "bio" -> "syncProfileDescription"
       [] key = "avatar" -> "syncProfilePicture"
       [] key = "name" -> "syncProfileName"
       [] key = "header" -> "syncProfileHeader"
       [] key = "backdate" -> "backdateBlueskyPosts"]

ToggleFields == {fieldMap[key] : key \in SettingKeys \ {"frequency"}}

\* The argument strings of a command, character by character.
ArgStrings ==
  {<<"5">>, <<"0">>, <<"1">>, <<"-", "5">>, <<"1", "2">>, <<"5", "x">>, <<"x">>,
   <<"o", "n">>, <<"O", "N">>, <<"o", "f", "f">>}

DigitValue ==
  ("0" :> 0) @@ ("1" :> 1) @@ ("2" :> 2) @@ ("3" :> 3) @@ ("4" :> 4) @@
  ("5" :> 5) @@ ("6" :> 6) @@ ("7" :> 7) @@ ("8" :> 8) @@ ("9" :> 9)

\* A number is <<n>>; NaN is <<>>.
NaN == <<>>

RECURSIVE Decimal(_)

\* The value of a string of digits
Decimal(d) ==
  IF d = <<>> THEN 0
  ELSE 10 * Decimal(SubSeq(d, 1, Len(d) - 1)) + DigitValue[d[Len(d)]]

\* parseInt(s, 10): an optional sign, then the longest run of digits; NaN when
\* there is no digit.
parseInt(s) ==
  LET signed == s # <<>> /\ s[1] \in {"-", "+"}
      rest == IF signed THEN Tail(s) ELSE s
      runs == {k \in 0..Len(rest) :
                 \A i \in 1..k : rest[i] \in DOMAIN DigitValue}
      n == CHOOSE k \in runs : \A j \in runs : j <= k
  IN IF n = 0 THEN NaN
     ELSE IF signed /\ s[1] = "-" THEN <<0 - Decimal(SubSeq(rest, 1, n))>>
     ELSE <<Decimal(SubSeq(rest, 1, n))>>

\* parseToggle(arg) for arg = args[0]: <<TRUE>>, <<FALSE>>, or <<>> for null
parseToggle(args) ==
  IF args = <<>> THEN <<>>
  ELSE LET lower == toLowerCase(args[1])
       IN IF lower \in {<<"o", "n">>, <<"t", "r", "u", "e">>, <<"1">>}
          THEN <<TRUE>>
          ELSE IF lower \in {<<"o", "f", "f">>, <<"f", "a", "l", "s", "e">>,
                             <<"0">>}
          THEN <<FALSE>>
          ELSE <<>>

\* The setting commands parseCommand can return; it lowers the argument of a
\* toggle.
SettingCommands ==
  {[type |-> "frequency", args |-> a] :
     a \in {<<>>} \cup {<<s>> : s \in ArgStrings}}
  \cup
  {[type |-> key, args |-> a] :
     key \in SettingKeys \ {"frequency"},
     a \in {<<>>} \cup {<<toLowerCase(s)>> : s \in ArgStrings}}

SetCall(key, value) ==
  [kind |-> "exec", what |-> "setSetting", key |-> key, value |-> value]

NoBot == [pc |-> "none", config |-> <<>>, intervalMs |-> 0]

SettingsInit ==
  /\ botConfig \in
       {[field \in ToggleFields |-> v] @@ ("syncFrequencyMin" :> 5) :
          v \in BOOLEAN}
  /\ liveBot = NoBot
  /\ startedWith = <<>>
  /\ lastPass = <<>>
  /\ setCmd = <<>>
  /\ setOutcome = <<>>
  /\ setCmds = 0

SetMarks == lastPass' = <<>> /\ setCmd' = <<>> /\ setOutcome' = <<>>

\* BotManager.start() up to the await of loadBotConfig
SettingsStartCall ==
  /\ SetFrame
  /\ liveBot.pc = "none"
  /\ liveBot' = [liveBot EXCEPT !.pc = "load"]
  /\ SetMarks
  /\ UNCHANGED <<botConfig, startedWith, setCmds>>

\* loadBotConfig: the columns of the row, copied into a new object
loadBotConfig(stored) == [f \in DOMAIN stored |-> stored[f]]

\* loadBotConfig settles; new BotInstance(config, ...) keeps the object;
\* bot.start() is awaited.
SettingsLoaded ==
  /\ SetFrame
  /\ liveBot.pc = "load"
  /\ liveBot' = [liveBot EXCEPT !.pc = "starting",
                                !.config = <<loadBotConfig(botConfig)>>]
  /\ startedWith' = <<botConfig>>
  /\ SetMarks
  /\ UNCHANGED <<botConfig, setCmds>>

\* BotInstance.start() sets its interval from this.config.
SettingsStarted ==
  /\ SetFrame
  /\ liveBot.pc = "starting"
  /\ liveBot' = [liveBot EXCEPT
                   !.pc = "running",
                   !.intervalMs = liveBot.config[1].syncFrequencyMin * 60 * 1000]
  /\ SetMarks
  /\ UNCHANGED <<botConfig, startedWith, setCmds>>

\* performSync reads this.config: whether to sync posts, and the time of the
\* next pass.
SettingsPass ==
  /\ SetFrame
  /\ liveBot.pc = "running"
  /\ lastPass' = <<[syncPosts |-> liveBot.config[1].syncPosts,
                    nextSyncInMs |-> liveBot.config[1].syncFrequencyMin * 60 * 1000]>>
  /\ setCmd' = <<>>
  /\ setOutcome' = <<>>
  /\ UNCHANGED <<botConfig, liveBot, startedWith, setCmds>>

\* BotManager.stop(): the instance is stopped and dropped.
SettingsStop ==
  /\ SetFrame
  /\ liveBot.pc = "running"
  /\ liveBot' = NoBot
  /\ startedWith' = <<>>
  /\ SetMarks
  /\ UNCHANGED <<botConfig, setCmds>>

\* executor.setSetting: the live BotInstance after the call
LiveAfterSetM(bot, key, value) ==
  IF bot.config = <<>> THEN bot
  ELSE [bot EXCEPT !.config = <<[bot.config[1] EXCEPT ![fieldMap[key]] = value]>>]

LiveAfterSet(bot, key, value) == bot

\* if (isNaN(minutes) || minutes < 1)
InvalidMinutesM(minutes) == minutes = NaN

InvalidMinutes(minutes) == minutes = NaN \/ minutes[1] < 1

\* <<the value the command hands to setSetting>>, <<>> for the invalid-value
\* reply.
SettingValue(c) ==
  IF c.type = "frequency"
  THEN IF c.args = <<>> THEN <<>>
       ELSE IF InvalidMinutes(parseInt(c.args[1])) THEN <<>>
       ELSE parseInt(c.args[1])
  ELSE parseToggle(c.args)

\* processMention for a frequency or toggle command of a trusted author, with
\* executor.setSetting: updateBotConfig writes one column, or throws and the
\* catch replies with the error.
SettingCommand(c, ok) ==
  /\ SetFrame
  /\ setCmds < MaxSettingCmds
  /\ setCmds' = setCmds + 1
  /\ setCmd' = <<c>>
  /\ lastPass' = <<>>
  /\ LET value == SettingValue(c)
     IN IF value = <<>>
        THEN /\ setOutcome' = <<Reply("invalidValue")>>
             /\ UNCHANGED <<botConfig, liveBot>>
        ELSE IF ok
        THEN /\ setOutcome' = <<SetCall(c.type, value), Reply("settingChanged")>>
             /\ botConfig' = [botConfig EXCEPT ![fieldMap[c.type]] = value[1]]
             /\ liveBot' = LiveAfterSet(liveBot, c.type, value[1])
        ELSE /\ setOutcome' = <<SetCall(c.type, value), Reply("error")>>
             /\ UNCHANGED <<botConfig, liveBot>>
  /\ UNCHANGED startedWith

SettingsNext ==
  \/ SettingsStartCall
  \/ SettingsLoaded
  \/ SettingsStarted
  \/ SettingsPass
  \/ SettingsStop
  \/ \E c \in SettingCommands, ok \in BOOLEAN : SettingCommand(c, ok)

\* The configuration while another component is under study.
SettingsRest == SettingsInit /\ botConfig.syncPosts

\* ------------------------------------------------------------------------
\* BotManager.stopAll
\* One start() call per bot is in flight at a time here; overlapping calls
\* for one bot are the subject of SpecMgr and SpecCmd.
\* ------------------------------------------------------------------------
StopAllInit ==
  /\ liveSet = {}
  /\ pollerSet = {}
  /\ syncTimers = {}
  /\ pollTimers = {}
  /\ saPc = [b \in BotIds |-> "none"]
  /\ stopAllDone = <<>>

\* start(botId) up to the await of bot.start(): the has-test, the
\* configuration, the client and the new instance.
SaStartCall(b) ==
  /\ SaFrame
  /\ saPc[b] = "none"
  /\ b \notin liveSet
  /\ saPc' = [saPc EXCEPT ![b] = "starting"]
  /\ stopAllDone' = <<>>
  /\ UNCHANGED <<liveSet, pollerSet, syncTimers, pollTimers>>

\* bot.start() settles. Resolved: the instance has armed its interval, it is
\* stored in this.bots, and startCommandPoller stops the poller it finds under
\* the key and awaits the configuration. Rejected: start() rejects.
SaBotStarted(b, ok) ==
  /\ SaFrame
  /\ saPc[b] = "starting"
  /\ stopAllDone' = <<>>
  /\ IF ok
       THEN /\ syncTimers' = syncTimers \cup {b}
            /\ liveSet' = liveSet \cup {b}
            /\ pollTimers' = IF b \in pollerSet THEN pollTimers \ {b} ELSE pollTimers
            /\ pollerSet' = pollerSet \ {b}
            /\ saPc' = [saPc EXCEPT ![b] = "poller"]
       ELSE /\ saPc' = [saPc EXCEPT ![b] = "none"]
            /\ UNCHANGED <<liveSet, pollerSet, syncTimers, pollTimers>>

\* startCommandPoller settles: with commands enabled and the login done the
\* poller has armed its interval and is stored; otherwise nothing is stored.
SaPollerStarted(b, enabled) ==
  /\ SaFrame
  /\ saPc[b] = "poller"
  /\ stopAllDone' = <<>>
  /\ saPc' = [saPc EXCEPT ![b] = "none"]
  /\ IF enabled
       THEN /\ pollTimers' = pollTimers \cup {b}
            /\ pollerSet' = pollerSet \cup {b}
       ELSE UNCHANGED <<pollTimers, pollerSet>>
  /\ UNCHANGED <<liveSet, syncTimers>>

\* BotInstance.stop() clears the interval of a running instance and then
\* emits; an instance that is not running returns at once.
ClearedBy(stopped) == syncTimers \ stopped

\* stop(botId): the poller of the bot and the bot are stopped and deleted;
\* when bot.stop() throws in a listener the entry stays and stop() throws.
SaStop(b, ok) ==
  /\ SaFrame
  /\ b \in liveSet
  /\ ok \/ b \in syncTimers
  /\ stopAllDone' = <<>>
  /\ pollTimers' = IF b \in pollerSet THEN pollTimers \ {b} ELSE pollTimers
  /\ pollerSet' = pollerSet \ {b}
  /\ syncTimers' = ClearedBy({b})
  /\ liveSet' = IF ok THEN liveSet \ {b} ELSE liveSet
  /\ UNCHANGED saPc

\* stopAll(): every poller of the map is stopped and deleted, then every bot,
\* each in try { bot.stop(); this.bots.delete(botId); ... } catch. bot.stop()
\* can throw, after it cleared the interval, when a listener of the events it
\* emits throws: for the bots in failed the delete is skipped.
StopAll(failed) ==
  /\ SaFrame
  /\ failed \subseteq (liveSet \cap syncTimers)
  /\ pollTimers' = pollTimers \ pollerSet
  /\ pollerSet' = {}
  /\ syncTimers' = ClearedBy(liveSet)
  /\ liveSet' = failed
  /\ stopAllDone' = <<[bots |-> liveSet, pollers |-> pollerSet]>>
  /\ UNCHANGED saPc

StopAllNext ==
  \/ \E b \in BotIds : SaStartCall(b)
  \/ \E b \in BotIds, ok \in BOOLEAN : SaBotStarted(b, ok)
  \/ \E b \in BotIds, enabled \in BOOLEAN : SaPollerStarted(b, enabled)
  \/ \E b \in BotIds, ok \in BOOLEAN : SaStop(b, ok)
  \/ \E failed \in SUBSET BotIds : StopAll(failed)

\* ------------------------------------------------------------------------
\* Specifications
\* ------------------------------------------------------------------------
InitOfMgr == MgrInit /\ InstInit /\ PostsRest /\ CmdInit /\ ProfRest /\ ParseRest /\ RetryRest /\ JobsInit /\ TrustRest /\ SettingsRest /\ StopAllInit
SpecMgr == InitOfMgr /\ [][MgrNext]_vars

\* The manager with its requests served one after another: start() and
\* executor.restart() are entered only when no earlier activation is still
\* in flight, so no caller ever waits on another's session promise.
NoneInFlight == \A c \in CallIds : calls[c].pc \in {"idle", "done"}

SeqStart(b) == NoneInFlight /\ StartCall(b)

SeqRestart(b) == NoneInFlight /\ RestartCall(b)

SeqNext ==
  \/ \E b \in BotIds : SeqStart(b) \/ StartRejected(b) \/ SeqRestart(b) \/ Stop(b)
                      \/ StopRejected(b)
  \/ \E c \in CallIds :
       \/ LoadDone(c) \/ AuthDone(c) \/ ClientCreated(c)
       \/ StartFailed(c) \/ Started(c)
       \/ \E enabled \in BOOLEAN : PollerDone(c, enabled)

SpecSeq == InitOfMgr /\ [][SeqNext]_vars

InitOfInst ==
  MgrInit /\ authConfigured /\ InstInit /\ PostsRest /\ CmdInit /\ ProfRest /\ ParseRest /\ RetryRest /\ JobsInit /\ TrustRest /\ SettingsRest /\ StopAllInit
SpecInst == InitOfInst /\ [][InstNext]_vars

InitOfPosts ==
  MgrInit /\ authConfigured /\ InstInit /\ PostsInit /\ CmdInit /\ ProfRest /\ ParseRest /\ RetryRest /\ JobsInit /\ TrustRest /\ SettingsRest /\ StopAllInit
SpecPosts == InitOfPosts /\ [][PostsNext]_vars

InitOfCmd ==
  MgrInit /\ authConfigured /\ InstInit /\ PostsRest /\ CmdInit /\ ProfRest /\ ParseRest /\ RetryRest /\ JobsInit /\ TrustRest /\ SettingsRest /\ StopAllInit
SpecCmd == InitOfCmd /\ [][CmdNext]_vars
SpecChannel == InitOfCmd /\ [][ChannelNext]_vars

InitOfProf ==
  MgrInit /\ authConfigured /\ InstInit /\ PostsRest /\ CmdInit /\ ProfInit
  /\ ParseRest /\ RetryRest /\ JobsInit /\ TrustRest /\ SettingsRest /\ StopAllInit
SpecProfile == InitOfProf /\ [][ProfNext]_vars

InitOfParse ==
  MgrInit /\ authConfigured /\ InstInit /\ PostsRest /\ CmdInit /\ ProfRest
  /\ ParseInit /\ RetryRest /\ JobsInit /\ TrustRest /\ SettingsRest /\ StopAllInit
SpecParse == InitOfParse /\ [][ParseNext]_vars

InitOfRetry ==
  /\ MgrInit /\ authConfigured /\ InstInit /\ PostsRest /\ CmdInit /\ ProfRest
  /\ ParseRest /\ RetryInit /\ JobsInit /\ TrustRest /\ SettingsRest /\ StopAllInit
SpecRetry == InitOfRetry /\ [][RetryNext]_vars

InitOfJobs ==
  /\ MgrInit /\ authConfigured /\ InstInit /\ PostsRest /\ CmdInit /\ ProfRest
  /\ ParseRest /\ RetryRest /\ JobsInit /\ TrustRest /\ SettingsRest /\ StopAllInit
SpecJobs == InitOfJobs /\ [][JobsNext]_vars

InitOfTrust ==
  /\ MgrInit /\ authConfigured /\ InstInit /\ PostsRest /\ CmdInit /\ ProfRest
  /\ ParseRest /\ RetryRest /\ JobsInit /\ TrustInit /\ SettingsRest /\ StopAllInit
SpecTrust == InitOfTrust /\ [][TrustNext]_vars

InitOfSettings ==
  /\ MgrInit /\ authConfigured /\ InstInit /\ PostsRest /\ CmdInit /\ ProfRest
  /\ ParseRest /\ RetryRest /\ JobsInit /\ TrustRest /\ SettingsInit /\ StopAllInit
SpecSettings == InitOfSettings /\ [][SettingsNext]_vars

InitOfStopAll ==
  /\ MgrInit /\ authConfigured /\ InstInit /\ PostsRest /\ CmdInit /\ ProfRest
  /\ ParseRest /\ RetryRest /\ JobsInit /\ TrustRest /\ SettingsRest
  /\ StopAllInit
SpecStopAll == InitOfStopAll /\ [][StopAllNext]_vars

\* ------------------------------------------------------------------------
\* Claims
\* ------------------------------------------------------------------------
StartedInsts(b) == {i \in CallIds : insts[i].bot = b /\ insts[i].syncInterval}

\* start() activations of pairwise different bots only.
DifferentBotStarts ==
  \A c, d \in CallIds :
    (c # d /\ calls[c].kind # "none" /\ calls[d].kind # "none")
      => (calls[c].kind = "start" /\ calls[d].kind = "start"
          /\ calls[c].bot # calls[d].bot)

\* C1: concurrent start() calls for different bots against a manager without
\* a session make exactly one createTwitterClient() call: no second call is
\* made, and never are two creations in flight.
C1_SingleFlightLogin ==
  DifferentBotStarts =>
    /\ authAttempts <= 1
    /\ Cardinality({c \in CallIds : calls[c].pc = "awaitOwn"}) <= 1

\* C2: at most one started BotInstance (armed sync timer) exists per bot id.
C2_OneStartedInstancePerBot ==
  \A b \in BotIds : Cardinality(StartedInsts(b)) <= 1

\* C3: a new pass of the instance never begins while a previous pass of it
\* is still in flight.
C3_NoOverlappingPasses == Cardinality(InFlight) <= 1

\* C4: without the force-resync override, a pass never calls syncPost for a
\* post that was marked synced when the pass began.
C4_SyncedNeverRedelivered ==
  ~forceSyncPosts => \A c \in called : c[1] \notin syncedAtStart

\* A finished pass that met a post marked synced and delivered another one.
C4_Witness ==
  /\ ~forceSyncPosts /\ postPc = "done" /\ called # {}
  /\ \E k \in 1..counter : feed[k] \in syncedAtStart

\* C5: a pass that follows a pass over the same feed (the feed was read to
\* the point where that pass stopped, force-resync off) makes no syncPost
\* call and runs no TweetMap insert.
C5_SecondPassIdle ==
  (repeat /\ ~forceSyncPosts) => (called = {} /\ inserts = {})

\* The second of two passes over a feed whose posts the first one delivered.
C5_Witness ==
  /\ repeat /\ ~forceSyncPosts /\ postPc = "done" /\ ~scraperError
  /\ lookups > 0 /\ TweetMap # {}

\* The feed is longer than the cutoff and its first maxCached posts were
\* marked synced when the pass began.
CutoffCase ==
  /\ ~forceSyncPosts
  /\ postPc # "idle"
  /\ Len(feed) > maxCached
  /\ \A k \in 1..maxCached : feed[k] \in syncedAtStart

\* C6: in the cutoff case the pass makes no syncPost call and takes no feed
\* item beyond position maxCached from the feed.
C6_NoItemBeyondCutoff ==
  CutoffCase => (called = {} /\ counter <= maxCached)

\* C7: when syncPost of platform a failed on every retry for a post and
\* that of platform b succeeded, then once the pass is through with the post,
\* b's delivery record exists, the post is marked synced and a's failure is
\* in the error log; the pass goes on.
C7_PartialFailureIsolated ==
  \A a, b \in Platforms :
    (postPc \notin {"sync", "mark"} /\ result[a] = "fail" /\ result[b] = "ok")
      => /\ HasRecord(metaTweet, b)
         /\ metaTweet \in TweetSynced
         /\ a \in errorLogged

\* A finished pass in which the first platform failed on every retry and the
\* second one then succeeded.
C7_Witness ==
  /\ postPc = "done"
  /\ \E a, b \in Platforms :
       /\ a < b /\ result[a] = "fail" /\ result[b] = "ok"
       /\ HasRecord(metaTweet, b) /\ metaTweet \in TweetSynced

\* C8: whenever a poller is in an executor call or a reply for a mention, its
\* cursor write of that mention's timestamp has completed.
C8_WriteBeforeAct ==
  \A p \in PollerIds :
    pollers[p].pollPc = "act" => pollers[p].wrote = pollers[p].cur

\* A poller inside the executor call of a mention whose timestamp it wrote.
C8_Witness ==
  \E p \in PollerIds :
    /\ pollers[p].pollPc = "act" /\ Head(pollers[p].todo) = "exec"
    /\ pollers[p].wrote = pollers[p].cur /\ cursor = pollers[p].cur

\* C9: the executor is invoked at most once for a mention.
C9_NeverExecutedTwice == \A m \in Mentions : execCount[m] <= 1

IsAscending(sq) == \A i, j \in 1..Len(sq) : i < j => sq[i] < sq[j]

\* The mention a poller is processing, followed by those still to process.
Pending(r) == (IF r.cur = 0 THEN <<>> ELSE <<r.cur>>) \o r.batch

C11_UntrustedGetsReply ==
  [][\A p \in PollerIds :
       (/\ pollers[p].pollPc = "persist"
        /\ kindOf[pollers[p].cur] = "untrusted"
        /\ pollers'[p].pollPc # "persist"
        /\ pollers'[p].st = pollers[p].st)
       => (/\ pollers'[p].pollPc = "act"
           /\ pollers'[p].cur = pollers[p].cur
           /\ Head(pollers'[p].todo) = "reply")]_vars

\* Activations for bot b that are at their load / create / start steps.
AtSteps(b) ==
  {c \in CallIds : /\ calls[c].bot = b
                   /\ calls[c].pc \in {"load", "auth", "awaitOwn", "awaitShared",
                                       "starting"}}

\* C12: while a command-issued restart of a bot is between the stop of the
\* old instance and the registration of the new one, no other start or
\* restart for that bot id is at its own load / create / start steps.
C12_RestartAtomic ==
  \A b \in BotIds :
    (\E c \in AtSteps(b) : calls[c].kind = "restart")
      => Cardinality(AtSteps(b)) = 1

\* C13: a pass that finds the image URL different from the cached URL and
\* downloads content whose fingerprint equals that of the last downloaded
\* content calls syncProfilePic / syncBanner on no destination.
C13_SameBytesNoCall ==
  [][(/\ profPc = "jobs"
      /\ UrlDiffers(row, fetchedUrl)
      /\ blob # 0
      /\ getBlobHash(blob) = lastDownloaded)
     => destCalls' = {}]_vars

\* C14: in a pass whose fetched image URL equals the URL read from the cache
\* nothing is downloaded and no destination is called for the image.
C14_SameUrlSkips ==
  fetchedUrl = row.url => (blob = 0 /\ destCalls = {})

\* A finished pass that found the URL cached by a pass that had downloaded.
C14_Witness ==
  /\ profPc = "idle"
  /\ fetchedUrl # 0
  /\ row.url = fetchedUrl
  /\ row.hash # 0
  /\ cache = [url |-> fetchedUrl, hash |-> 0]

\* C15: start(b) for a bot in the live set begins no activation; it throws
\* 'already running' and leaves the map, the instances with their timers,
\* the command pollers and the activations as they were.
C15_StartOnLiveRejected ==
  [][\A b \in BotIds :
       MgrIsRunning(b) =>
         /\ \A c \in CallIds :
              calls[c].kind = "none"
                => ~(calls'[c].kind = "start" /\ calls'[c].bot = b)
         /\ (ret'.op = "start" /\ ret'.bot = b)
              => /\ ret'.err = "already running"
                 /\ UNCHANGED <<bots, commandPollers, calls, insts, xClient,
                                xClientPromise, authAttempts>>]_vars

\* start() has just been refused for a live bot that has a command poller
\* and an armed timer.
C15_Witness ==
  \E b \in BotIds :
    /\ ret = Returned("start", b, "already running")
    /\ MgrIsRunning(b)
    /\ b \in commandPollers
    /\ insts[bots[b]].syncInterval

\* C16: the step stop(b) on a live bot returns without error with the bot
\* out of the map, its command poller entry gone and its instance stopped
\* with the timer cancelled; stop(b) on a bot that is not live throws
\* 'not running' and changes nothing.
C16_StopIsOneStep ==
  [][\A b \in BotIds :
       (ret'.op = "stop" /\ ret'.bot = b /\ ret' # ret) =>
         IF MgrIsRunning(b)
         THEN /\ ret'.err = "none"
              /\ ~MgrIsRunning(b)'
              /\ b \notin commandPollers'
              /\ ~insts'[bots[b]].isRunning
              /\ ~insts'[bots[b]].syncInterval
              /\ UNCHANGED calls
         ELSE /\ ret'.err = "not running"
              /\ UNCHANGED <<bots, commandPollers, calls, insts>>]_vars

\* stop() has just returned without error for a bot whose start() had
\* finished; the bot is out of the map.
C16_Witness ==
  \E b \in BotIds :
    /\ ret = Returned("stop", b, "none")
    /\ ~MgrIsRunning(b)
    /\ \E c \in CallIds : calls[c] = DoneCall

\* C17: a start() that got at least one synchronizer begins exactly one pass
\* with the timer not yet armed, and the step in which that pass ends,
\* with status 'running' or 'error', arms the timer, lets start() resolve
\* with the instance running, and has its caller store the instance.
C17_TimerArmedAfterFirstPass ==
  [][/\ (startPc = "init" /\ startPc' # "init" /\ synchronizers' > 0)
          => /\ startPc' = "firstPass"
             /\ Cardinality(InFlight') = 1
             /\ ~syncInterval'
     /\ (startPc = "firstPass" /\ InFlight' = {})
          => /\ startPc' = "started"
             /\ syncInterval'
             /\ isRunning'
             /\ registered'
             /\ status' \in {"running", "error"}]_vars

\* The first pass has failed (no pass has succeeded so far): the instance is
\* started, stored and its timer armed.
C17_Witness ==
  /\ startPc = "started"
  /\ synchronizers > 0
  /\ status = "error"
  /\ ~nextSyncAt
  /\ events = {"statusChange", "error"}
  /\ syncInterval
  /\ registered

\* C18: the step in which a pass ends in failure sets status 'error' with
\* an error message and leaves a running instance's timer armed; the step in
\* which a pass ends in success sets status 'running' and clears the error
\* message.
C18_StatusFollowsPass ==
  [][\A p \in PassIds :
       (p \in InFlight /\ p \notin InFlight') =>
         /\ isRunning' => syncInterval'
         /\ startPc = "started" => syncInterval' = syncInterval
         /\ IF "error" \in events'
            THEN status' = "error" /\ errorMessage'
            ELSE /\ "syncComplete" \in events'
                 /\ status' = "running"
                 /\ ~errorMessage']_vars

\* A pass of a started, running instance has just failed after an earlier
\* pass had succeeded; the timer is armed.
C18_Witness ==
  /\ startPc = "started"
  /\ isRunning
  /\ events = {"statusChange", "error"}
  /\ status = "error"
  /\ errorMessage
  /\ nextSyncAt
  /\ syncInterval

\* C19: once initializeSynchronizers() has returned with no synchronizer,
\* start() has failed: status 'error' with a message, the instance not
\* running, no pass begun, no timer armed, the instance not stored.
C19_NoSynchronizerNoStart ==
  (startPc \notin {"new", "auth", "init"} /\ synchronizers = 0) =>
    /\ startPc = "failed"
    /\ status = "error"
    /\ errorMessage
    /\ ~isRunning
    /\ InFlight = {}
    /\ ~nextSyncAt
    /\ ~syncInterval
    /\ ~registered

\* start() has failed for want of a synchronizer.
C19_Witness ==
  /\ startPc = "failed"
  /\ synchronizers = 0
  /\ method = "start"
  /\ events = {"statusChange"}

\* C20: stop() on a running instance cancels the timer, sets status
\* 'stopped' and clears nextSyncAt; stop() on an instance that is not
\* running changes no state and emits no event.
C20_StopIdempotent ==
  [][(method' = "stop" /\ <<method, events, isRunning>>' # <<method, events, isRunning>>)
       => IF isRunning
          THEN /\ ~isRunning'
               /\ ~syncInterval'
               /\ status' = "stopped"
               /\ ~nextSyncAt'
               /\ events' = {"statusChange"}
          ELSE /\ events' = {}
               /\ UNCHANGED <<isRunning, syncInterval, status, nextSyncAt,
                              errorMessage, startPc, passes, synchronizers,
                              registered>>]_vars

\* stop() has just been called on an instance that an earlier stop() had
\* stopped: nothing was emitted.
C20_Witness ==
  /\ method = "stop"
  /\ events = {}
  /\ startPc = "started"
  /\ ~isRunning
  /\ status = "stopped"
  /\ ~syncInterval

\* C21: stop() leaves the passes in flight as they are; on a stopped
\* instance no new pass begins, and the step in which a pass in flight ends
\* still records its outcome in the status.
C21_StopLetsPassFinish ==
  [][/\ (method' = "stop" /\ <<method, events, isRunning>>' # <<method, events, isRunning>>)
          => passes' = passes
     /\ (startPc = "started" /\ ~isRunning)
          => /\ InFlight' \subseteq InFlight
             /\ \A p \in InFlight \ InFlight' :
                  /\ "statusChange" \in events'
                  /\ status' \in {"running", "error"}]_vars

\* A pass that was in flight when stop() was called has ended in success on
\* the stopped instance.
C21_Witness ==
  /\ startPc = "started"
  /\ ~isRunning
  /\ ~syncInterval
  /\ method = "performSync"
  /\ "syncComplete" \in events
  /\ status = "running"
  /\ InFlight = {}

\* The command words the text holds.
WordsIn(t) == {t[i] : i \in 1..Len(t)} \cap TypeWords

\* C22: a handled text of a trusted author that holds a command word is
\* not answered with the 'unknown' template, and a text that holds none is.
C22_VocabularyDispatched ==
  parsePc = "done" =>
    (outcome = <<Reply("unknown")>> <=> WordsIn(text) = {})

\* C23: a poller begins a poll only while the stored command configuration
\* of the bot is enabled; with the configuration disabled no poll begins.
C23_PollsOnlyWhileEnabled ==
  [][\A p \in PollerIds :
       pollers'[p].activePolls > pollers[p].activePolls => cmdEnabled]_vars

\* C24: when the executor call of a mention throws, the poller's next call
\* is the error reply to the same mention with the batch untouched, and
\* when that reply is over the poll goes on with the remaining mentions
\* exactly as after a command that succeeded.
C24_ExecutorErrorReplied ==
  [][\A p \in PollerIds :
       LET r == pollers[p]
           n == pollers'[p]
           Moved == n.todo # r.todo \/ n.pollPc # r.pollPc
       IN /\ (r.pollPc = "act" /\ Head(r.todo) = "exec" /\ Moved
               /\ n.st = r.st /\ botLive' = botLive)
              => \/ n = (IF Tail(r.todo) = <<>> THEN NextMention(r)
                         ELSE [r EXCEPT !.todo = Tail(@)])
                 \/ n = [r EXCEPT !.todo = <<"errorReply">>]
          /\ (r.pollPc = "act" /\ Head(r.todo) = "errorReply" /\ Moved
               /\ n.st = r.st /\ botLive' = botLive)
              => n = NextMention(r)]_vars

\* A poller inside the error reply to a mention while a newer mention of
\* the same batch waits.
C24_Witness ==
  \E p \in PollerIds :
    /\ pollers[p].pollPc = "act" /\ pollers[p].todo = <<"errorReply">>
    /\ pollers[p].batch # <<>>

\* C25: the table holds at most one record per <<post id, platform>>, and
\* the record of a pair is the one inserted first: an insert for a pair that
\* has a record, as under force-resync, leaves it as it was.
C25_OneRecordPerPair ==
  /\ \A r1, r2 \in TweetMap : (r1[1] = r2[1] /\ r1[2] = r2[2]) => r1 = r2
  /\ \A r1 \in TweetMap : r1[3] = "first"

\* Under force-resync a post was delivered again, the insert ran with a
\* store that differs from the stored one, and the stored one is in place.
C25_Witness ==
  /\ forceSyncPosts
  /\ \E rec \in inserts :
       /\ rec[3] = "other" /\ rec \notin TweetMap
       /\ <<rec[1], rec[2], "first">> \in TweetMap

RECURSIVE Consecutive(_)
Consecutive(k) ==
  IF k = 0 THEN 0
  ELSE IF feed[k] \notin validPosts THEN Consecutive(k - 1)
  ELSE IF feed[k] \in syncedAtStart /\ ~forceSyncPosts THEN Consecutive(k - 1) + 1
  ELSE 0

Scanning == postPc \in {"iter", "sync", "mark"}

\* C27: while the pass scans, cachedCounter is the number of consecutive
\* already-synced posts met last (a not-yet-synced valid post sets it to
\* zero, an invalid post leaves it alone) and it was below the cutoff at
\* every post before the last one taken; a pass that ended without a feed
\* error before the end of the feed has counted maxCached such posts; no
\* invalid post is ever delivered or marked synced.
C27_CountsConsecutiveSynced ==
  /\ cachedCounter <= maxCached
  /\ Scanning => /\ cachedCounter = Consecutive(counter)
                 /\ \A k \in 0..(counter - 1) : Consecutive(k) < maxCached
  /\ (postPc = "done" /\ hasSyncPost # {} /\ ~scraperError /\ counter < Len(feed))
       => cachedCounter = maxCached
  /\ \A c \in called : c[1] \in validPosts
  /\ TweetSynced \subseteq validPosts

\* A pass that delivered a not-yet-synced post, which set the count to zero,
\* and then counted an already-synced one up to the cutoff.
C27_Witness ==
  /\ ~forceSyncPosts /\ ~scraperError /\ postPc \in {"iter", "done"}
  /\ counter = Len(feed) /\ counter = MaxFeed
  /\ \E p \in hasSyncPost : <<feed[1], p>> \in called
  /\ feed[2] \in syncedAtStart
  /\ cachedCounter = maxCached

\* C28: withRetry calls fn at most maxRetries + 1 times; when it has
\* returned, the call that succeeded was the last one; when it has thrown,
\* fn failed maxRetries + 1 times and the error is that of the last call;
\* the k-th wait is min(baseDelayMs * backoffMultiplier^(k-1), maxDelayMs),
\* and onRetry was called once before each retry, with k.
C28_RetryContract ==
  /\ fnCalls <= maxRetries + 1
  /\ retryPc = "returned" => fnCalls = Len(fnErrors) + 1
  /\ retryPc = "thrown" =>
       /\ fnCalls = maxRetries + 1 /\ Len(fnErrors) = maxRetries + 1
       /\ thrownError = fnErrors[Len(fnErrors)]
  /\ retryPc # "thrown" => thrownError = 0
  /\ Len(delays) = (IF retryPc = "wait" THEN fnCalls ELSE fnCalls - 1)
  /\ \A k \in 1..Len(delays) :
       delays[k] = MathMin(baseDelayMs * Pow(backoffMultiplier, k - 1), maxDelayMs)
  /\ onRetryArgs = [k \in 1..Len(delays) |-> k]

\* withRetry threw after two retries with different errors, the second
\* wait cut down to maxDelayMs.
C28_Witness ==
  /\ retryPc = "thrown" /\ maxRetries = MaxRetriesOpt
  /\ fnErrors[1] # thrownError
  /\ delays[1] < maxDelayMs
  /\ delays[Len(delays)] = maxDelayMs
  /\ baseDelayMs * Pow(backoffMultiplier, Len(delays) - 1) > maxDelayMs

\* C29: a performSync never makes more than MAX_SYNC_RETRIES attempts. The
\* step in which an attempt fails either starts the retry delay, when the
\* error is transient and attempts remain, or ends the performSync with
\* status 'error' and the message set; the step that ends the delay starts
\* the next attempt.
C29_BoundedRetry ==
  [][\A p \in PassIds :
       /\ passes'[p].attempt <= MAX_SYNC_RETRIES
       /\ (lastFailure' # "none" /\ passes'[p] # passes[p])
            => IF lastFailure' = "transient" /\ passes[p].attempt < MAX_SYNC_RETRIES
               THEN /\ passes'[p] = [passes[p] EXCEPT !.delay = TRUE]
                    /\ status' = status
               ELSE /\ passes'[p] = NoPass
                    /\ status' = "error" /\ errorMessage'
                    /\ "error" \in events'
       /\ (passes[p].delay /\ passes'[p] # passes[p])
            => passes'[p] = [attempt |-> passes[p].attempt + 1, delay |-> FALSE]]_vars

\* The last attempt of a performSync failed with a transient error: the
\* pass is over with status 'error'.
C29_Witness ==
  /\ lastFailure = "transient" /\ status = "error" /\ errorMessage
  /\ "error" \in events /\ InFlight = {}

\* C30: once syncProfile has returned, the failure of every destination
\* call that failed has been reported by an error log entry.
C30_EveryFailureLogged ==
  jobsPc = "returned" => Rejected \subseteq errorLog

\* C31: when a profile pass has written the media cache, the cached URL is
\* the URL fetched in the pass and the cached fingerprint is that of the
\* content downloaded last for the image, in this pass or an earlier one.
C31_CacheHoldsLatest ==
  profPc = "jobs" =>
    /\ cache.url = fetchedUrl
    /\ cache.hash = (IF blob # 0 THEN getBlobHash(blob) ELSE lastDownloaded)

\* C32: a poller comes to updateSeenNotifications() only in the step that
\* ends the processing of the last mention of its batch (the cursor write
\* of that mention done, no mention left), never from the listing and never
\* in a step in which the poll fails; the step after it ends the poll.
C32_MarkReadAfterBatch ==
  [][\A p \in PollerIds :
       LET r == pollers[p]
           n == pollers'[p]
       IN /\ (n.pollPc = "markRead" /\ r.pollPc # "markRead")
              => /\ r.pollPc \in {"persist", "act"}
                 /\ r.cur # 0 /\ r.batch = <<>>
                 /\ n.wrote = r.cur
          /\ (r.pollPc = "markRead" /\ n.pollPc # "markRead" /\ n.st # "none")
              => n.pollPc = "idle"]_vars

\* A poller awaiting updateSeenNotifications() after a batch of two
\* mentions, the cursor at the second.
C32_Witness ==
  \E p \in PollerIds :
    /\ pollers[p].pollPc = "markRead" /\ pollers[p].wrote = MaxMentions
    /\ cursor = MaxMentions /\ pollers[p].activePolls = 1

\* C36: when the cursor write of a mention fails, the poll ends in that
\* step: nothing is executed, the rest of the batch is dropped, the poller is
\* not polling any more and its timer is as it was.
C36_PersistFailureEndsPoll ==
  [][\A p \in PollerIds :
       LET r == pollers[p]
           n == pollers'[p]
       IN (/\ r.pollPc = "persist" /\ n.pollPc # "persist"
           /\ n.st = r.st /\ botLive' = botLive
           /\ n.wrote # r.cur)
          => /\ n.pollPc = "idle" /\ ~n.polling /\ n.batch = <<>>
             /\ n.armed = r.armed
             /\ execCount' = execCount
             /\ cursor' = cursor]_vars

\* An armed poller left idle by a failed cursor write for a command of a
\* trusted author, a later mention waiting for the next tick.
C36_Witness ==
  \E p \in PollerIds :
    /\ pollers[p].st = "live" /\ pollers[p].armed
    /\ pollers[p].pollPc = "idle" /\ ~pollers[p].polling
    /\ pollers[p].lastSeenAt # 0
    /\ pollers[p].wrote # pollers[p].lastSeenAt
    /\ cursor < pollers[p].lastSeenAt
    /\ kindOf[pollers[p].lastSeenAt] \in {"restart", "sync"}
    /\ execCount[pollers[p].lastSeenAt] = 0
    /\ arrived > pollers[p].lastSeenAt

\* The command words parseCommand has a pattern for.
ParserWords == TypeWords \ {"mute", "unmute", "last", "stats"}

\* C33: the command parseCommand returned is the leftmost command token of
\* the text, and null when the text has none.
C33_FirstTokenWins ==
  parsePc # "new" =>
    LET at == {i \in 1..Len(text) : text[i] \in ParserWords}
    IN IF at = {} THEN command = Null
       ELSE command.type = text[Min(at)]

\* C34: an instance on which stop() has run (start() had resolved, isRunning
\* is false) has status 'stopped' and no nextSyncAt.
C34_StoppedStaysStopped ==
  (startPc = "started" /\ ~isRunning) => (status = "stopped" /\ ~nextSyncAt)

\* C38: at most one CommandPoller of the bot has an armed poll timer.
C38_OneArmedPoller ==
  Cardinality({p \in PollerIds : pollers[p].armed}) <= 1

\* C35: the executor is called for a mention only if its author is, handles
\* compared without regard to case, on the allow-list that was read at the
\* start of the poll tick in work, and that list is the one the poller uses
\* for every mention of the tick.
C35_UntrustedNeverExecutes ==
  /\ executed =>
       \E i \in 1..Len(reread) : toLowerCase(reread[i]) = toLowerCase(author)
  /\ trustPc \in {"list", "persist", "acted"} => pollerConfig = reread

\* The stored list was edited during the tick; the author is on the list of
\* the tick in another spelling only, and the command of the last mention
\* of the batch is executed.
C35_Witness ==
  /\ executed
  /\ author \notin {reread[i] : i \in 1..Len(reread)}
  /\ trustedHandles # reread
  /\ mentionsLeft = 1

\* C37: a setting command calls setSetting with its own key only, for
\* 'frequency' with an integer >= 1 and for a toggle with a boolean; when the
\* argument is missing, or is no number >= 1 for 'frequency', or none of the
\* on/off words for a toggle, the only effect is the invalid-value reply and
\* the stored configuration stays as it was.
C37_ToggleWords ==
  {<<"o", "n">>, <<"t", "r", "u", "e">>, <<"1">>, <<"o", "f", "f">>,
   <<"f", "a", "l", "s", "e">>, <<"0">>}

C37_InvalidArg(c) ==
  \/ c.args = <<>>
  \/ IF c.type = "frequency"
     THEN parseInt(c.args[1]) = NaN \/ parseInt(c.args[1])[1] < 1
     ELSE toLowerCase(c.args[1]) \notin C37_ToggleWords

C37_SetSettingTyped ==
  [][setCmd' # <<>> =>
       LET c == setCmd'[1]
           out == setOutcome'
       IN /\ \A i \in 1..Len(out) :
               out[i].kind = "exec" =>
                 /\ out[i].what = "setSetting"
                 /\ out[i].key = c.type
                 /\ Len(out[i].value) = 1
                 /\ IF c.type = "frequency"
                    THEN out[i].value[1] \in Int /\ out[i].value[1] >= 1
                    ELSE out[i].value[1] \in BOOLEAN
          /\ C37_InvalidArg(c) =>
               out = <<Reply("invalidValue")>> /\ botConfig' = botConfig]_vars

\* After '!frequency 12' was stored, '!frequency -5' is answered with the
\* invalid-value reply.
C37_Witness ==
  /\ setCmd = <<[type |-> "frequency", args |-> <<<<"-", "5">>>>]>>
  /\ setOutcome = <<Reply("invalidValue")>>
  /\ botConfig.syncFrequencyMin = 12

\* C39: the live BotInstance holds, and works with, the configuration as it
\* was read when the instance was built: its interval, the toggles and the
\* next-sync time of its passes come from that snapshot, whatever setSetting
\* has stored since.
C39_SyncsWithSnapshot ==
  /\ liveBot.pc \in {"starting", "running"} => liveBot.config = startedWith
  /\ liveBot.pc = "running" =>
       liveBot.intervalMs = startedWith[1].syncFrequencyMin * 60 * 1000
  /\ liveBot.pc # "running" => liveBot.intervalMs = 0
  /\ lastPass # <<>> =>
       /\ lastPass[1].syncPosts = startedWith[1].syncPosts
       /\ lastPass[1].nextSyncInMs = startedWith[1].syncFrequencyMin * 60 * 1000

\* '!posts off' has just been stored while the instance runs with posts on.
C39_Witness ==
  /\ liveBot.pc = "running"
  /\ setCmd # <<>> /\ setCmd[1].type = "posts"
  /\ setOutcome = <<SetCall("posts", <<FALSE>>), Reply("settingChanged")>>
  /\ ~botConfig.syncPosts
  /\ liveBot.config[1].syncPosts

====
